---------------------------- MODULE Spec2Model ----------------------------
(***************************************************************************)
(* A model of scripts/patch-clawd.py: the detection of the mascot blocks   *)
(* in the binary image, the construction of same-length replacements, and  *)
(* the gated, backed-up, temp-file-plus-rename application of the patch    *)
(* set, together with the file system the script runs against.             *)
(*                                                                         *)
(* Byte strings are sequences of one-character strings, so data[a:b] is    *)
(* Slice(data, a, b) and offsets are the script's 0-based byte offsets.    *)
(* A "\uXXXX" escape in the script's raw literals is six bytes here too.   *)
(***************************************************************************)
EXTENDS Integers, Sequences, FiniteSets, TLC

\* ROW1_STR = "\u2597\u2598 \u2726 \u259D\u2596"

ROW1_STR ==
    <<"\"", "\\", "u", "2", "5", "9", "7", "\\", "u", "2", "5", "9", "8", " ", "\\", "u", "2", "7", "2", "6", " ", "\\", "u", "2", "5", "9", "D", "\\", "u", "2", "5", "9", "6", "\"">>
\* ROW2_WING = "\u2590\u258C"

ROW2_WING ==
    <<"\"", "\\", "u", "2", "5", "9", "0", "\\", "u", "2", "5", "8", "C", "\"">>
\* ROW2_EYE = " \u25CF "

ROW2_EYE ==
    <<"\"", " ", "\\", "u", "2", "5", "C", "F", " ", "\"">>
\* ROW3_BASE = " \u2580   \u2580 "

ROW3_BASE ==
    <<"\"", " ", "\\", "u", "2", "5", "8", "0", " ", " ", " ", "\\", "u", "2", "5", "8", "0", " ", "\"">>
\* ROW3_PLUS1 = " \u2580   \u2580  "

ROW3_PLUS1 ==
    <<"\"", " ", "\\", "u", "2", "5", "8", "0", " ", " ", " ", "\\", "u", "2", "5", "8", "0", " ", " ", "\"">>
\* ROW3_PLUS2 = " \u2580   \u2580   "

ROW3_PLUS2 ==
    <<"\"", " ", "\\", "u", "2", "5", "8", "0", " ", " ", " ", "\\", "u", "2", "5", "8", "0", " ", " ", " ", "\"">>
\* ROW1_COLOR = chromeYellow

ROW1_COLOR ==
    <<"c", "h", "r", "o", "m", "e", "Y", "e", "l", "l", "o", "w">>
\* ROW2_WING_COLOR = penguinShimmer

ROW2_WING_COLOR ==
    <<"p", "e", "n", "g", "u", "i", "n", "S", "h", "i", "m", "m", "e", "r">>
\* ROW2_EYE_COLOR = chromeYellow

ROW2_EYE_COLOR ==
    <<"c", "h", "r", "o", "m", "e", "Y", "e", "l", "l", "o", "w">>
\* ROW3_COLOR = chromeYellow

ROW3_COLOR ==
    <<"c", "h", "r", "o", "m", "e", "Y", "e", "l", "l", "o", "w">>
\* PATCHED_FINGERPRINT = color:"chromeYellow"},"\u2597\u2598 \u2726 \u259D\u2596"

PATCHED_FINGERPRINT ==
    <<"c", "o", "l", "o", "r", ":", "\"", "c", "h", "r", "o", "m", "e", "Y", "e", "l", "l", "o", "w", "\"", "}", ",", "\"", "\\", "u", "2", "5", "9", "7", "\\", "u", "2", "5", "9", "8", " ", "\\", "u", "2", "7", "2", "6", " ", "\\", "u", "2", "5", "9", "D", "\\", "u", "2", "5", "9", "6", "\"">>
\* CLAWD_BODY = clawd_body

CLAWD_BODY ==
    <<"c", "l", "a", "w", "d", "_", "b", "o", "d", "y">>
\* KW_FUNCTION = function

KW_FUNCTION ==
    <<"f", "u", "n", "c", "t", "i", "o", "n">>
\* KW_RETURN = return

KW_RETURN ==
    <<"r", "e", "t", "u", "r", "n">>
\* LIT_CALL_RETURN = (){return

LIT_CALL_RETURN ==
    <<"(", ")", "{", "r", "e", "t", "u", "r", "n">>
\* LIT_CREATE = .createElement(

LIT_CREATE ==
    <<".", "c", "r", "e", "a", "t", "e", "E", "l", "e", "m", "e", "n", "t", "(">>
\* LIT_CREATE_BARE = createElement(

LIT_CREATE_BARE ==
    <<"c", "r", "e", "a", "t", "e", "E", "l", "e", "m", "e", "n", "t", "(">>
\* LIT_FLEX_OPTS = ,{flexDirection:"column",alignItems:"center"}

LIT_FLEX_OPTS ==
    <<",", "{", "f", "l", "e", "x", "D", "i", "r", "e", "c", "t", "i", "o", "n", ":", "\"", "c", "o", "l", "u", "m", "n", "\"", ",", "a", "l", "i", "g", "n", "I", "t", "e", "m", "s", ":", "\"", "c", "e", "n", "t", "e", "r", "\"", "}">>
\* LIT_COLOR_OPEN = ,{color:"

LIT_COLOR_OPEN ==
    <<",", "{", "c", "o", "l", "o", "r", ":", "\"">>
\* LIT_COLOR_CLOSE = "},

LIT_COLOR_CLOSE ==
    <<"\"", "}", ",">>
\* LIT_COLOR_CLAWD = ,{color:"clawd_body"

LIT_COLOR_CLAWD ==
    <<",", "{", "c", "o", "l", "o", "r", ":", "\"", "c", "l", "a", "w", "d", "_", "b", "o", "d", "y", "\"">>
\* LIT_COLOR_SHIMMER = ,{color:"penguinShimmer"

LIT_COLOR_SHIMMER ==
    <<",", "{", "c", "o", "l", "o", "r", ":", "\"", "p", "e", "n", "g", "u", "i", "n", "S", "h", "i", "m", "m", "e", "r", "\"">>
\* LIT_NULL = ,null,

LIT_NULL ==
    <<",", "n", "u", "l", "l", ",">>
\* LIT_FUNCTION_SP = function 

LIT_FUNCTION_SP ==
    <<"f", "u", "n", "c", "t", "i", "o", "n", " ">>
\* LIT_RETURN_SP = return 

LIT_RETURN_SP ==
    <<"r", "e", "t", "u", "r", "n", " ">>
\* LIT_FUNC_OPEN = (){return 

LIT_FUNC_OPEN ==
    <<"(", ")", "{", "r", "e", "t", "u", "r", "n", " ">>
\* PAD_UNIT = ,""

PAD_UNIT ==
    <<",", "\"", "\"">>

U25CF == <<"\\", "u", "2", "5", "C", "F">>

U2580 == <<"\\", "u", "2", "5", "8", "0">>

U258C == <<"\\", "u", "2", "5", "8", "C">>

U2590 == <<"\\", "u", "2", "5", "9", "0">>

U2584 == <<"\\", "u", "2", "5", "8", "4">>

U2596 == <<"\\", "u", "2", "5", "9", "6">>

U2597 == <<"\\", "u", "2", "5", "9", "7">>

U2598 == <<"\\", "u", "2", "5", "9", "8">>

U259D == <<"\\", "u", "2", "5", "9", "D">>

U2726 == <<"\\", "u", "2", "7", "2", "6">>

\* chunk_size of _extract_block: the scan window.
chunk_size == 2000

\* The length of the context window of an anchor.
context_size == 600

\* Filler lengths of the input images' blocks.
FillA == 281

FillB == 283

FillC == 285

FillShort == 20

(***************************************************************************)
(* Byte-string helpers                                                     *)
(***************************************************************************)
Min(a, b) == IF a < b THEN a ELSE b

\* The function f on 1..n as a tuple.
AsTuple(f, n) == SubSeq(f, 1, n)

MinOf(S) == CHOOSE x \in S : \A y \in S : x <= y

\* The elements of a finite set of integers in ascending order.
SortedSeq(S) ==
    AsTuple([k \in 1..Cardinality(S) |->
                CHOOSE x \in S : Cardinality({y \in S : y < x}) = k - 1],
            Cardinality(S))

\* d[a:b] of Python: 0-based, end-exclusive, clipped to the length of d.
Slice(d, a, b) == SubSeq(d, a + 1, Min(b, Len(d)))

\* A faulty variant of the slice assignment that drops the byte after the slice.
SliceAssign_short(d, a, b, new) == Slice(d, 0, a) \o new \o Slice(d, b + 1, Len(d))

\* d[a:b] = new for len(new) = b - a or not: the bytearray slice assignment.
SliceAssign(d, a, b, new) == Slice(d, 0, a) \o new \o Slice(d, b, Len(d))

\* n copies of the byte c.
Fill(c, n) == AsTuple([i \in 1..n |-> c], n)

\* unit * n of Python for a byte string unit.
Repeat(unit, n) ==
    AsTuple([i \in 1..(n * Len(unit)) |-> unit[((i - 1) % Len(unit)) + 1]],
            n * Len(unit))

\* The literal lit occurs in d at the 0-based offset i.
LitAt(d, i, lit) ==
    /\ i + Len(lit) <= Len(d)
    /\ \A j \in 1..Len(lit) : d[i + j] = lit[j]

\* lit in d
Contains(d, lit) == \E i \in 0..(Len(d) - Len(lit)) : LitAt(d, i, lit)

\* The offset that ends the longest run of bytes of class C starting at i:
\* what a greedy C+ consumes when the next pattern element is outside C.
RunEnd(d, i, C) ==
    LET S == {j \in i..(Len(d) - 1) : d[j + 1] \notin C}
    IN  IF S = {} THEN Len(d) ELSE MinOf(S)

\* \s of a bytes pattern (the vertical tab has no TLA+ escape and is left out).
WhiteSpace == {" ", "\t", "\n", "\r", "\f"}

\* [\w$] of a bytes pattern: ASCII letters, digits, underscore, dollar.
IdentChars ==
    {"a", "b", "c", "d", "e", "f", "g", "h", "i", "j", "k", "l", "m",
     "n", "o", "p", "q", "r", "s", "t", "u", "v", "w", "x", "y", "z",
     "A", "B", "C", "D", "E", "F", "G", "H", "I", "J", "K", "L", "M",
     "N", "O", "P", "Q", "R", "S", "T", "U", "V", "W", "X", "Y", "Z",
     "0", "1", "2", "3", "4", "5", "6", "7", "8", "9", "_", "$"}

(***************************************************************************)
(* Pattern detection                                                       *)
(***************************************************************************)
MASCOT_CHARS == {U25CF, U2580, U258C, U2590, U2584, U2596, U2597, U2598, U259D, U2726}

NoMatch == [ok |-> FALSE]

\* \.createElement\(([\w$]+),\{flexDirection:"column",alignItems:"center"\}
\* tried at offset s: the tail both anchor patterns share.
FlexTail(d, s) ==
    LET a == s + Len(LIT_CREATE)
        e == RunEnd(d, a, IdentChars)
    IN  IF LitAt(d, s, LIT_CREATE) /\ e > a /\ LitAt(d, e, LIT_FLEX_OPTS)
        THEN [ok |-> TRUE, flex |-> Slice(d, a, e)]
        ELSE NoMatch

\* ([\w$]+(?:\.[\w$]+)?) followed by the tail, tried at offset p.  The greedy
\* optional group is tried first; giving it up is the only backtracking that
\* can succeed, because every shorter identifier is followed by an identifier
\* byte where the pattern needs a dot.
ReactFlexMatch(d, p) ==
    LET q == RunEnd(d, p, IdentChars)
        r == IF q < Len(d) /\ d[q + 1] = "." THEN RunEnd(d, q + 1, IdentChars) ELSE q
    IN  IF q > p /\ r > q + 1 /\ FlexTail(d, r).ok
        THEN [ok |-> TRUE, react |-> Slice(d, p, r), flex |-> FlexTail(d, r).flex]
        ELSE IF q > p /\ FlexTail(d, q).ok
        THEN [ok |-> TRUE, react |-> Slice(d, p, q), flex |-> FlexTail(d, q).flex]
        ELSE NoMatch

\* FULL_FUNC_RE tried at offset i.
FULL_FUNC_RE(d, i) ==
    LET w1 == i + Len(KW_FUNCTION)
        n0 == RunEnd(d, w1, WhiteSpace)
        n1 == RunEnd(d, n0, IdentChars)
        w2 == n1 + Len(LIT_CALL_RETURN)
        r0 == RunEnd(d, w2, WhiteSpace)
    IN  IF /\ LitAt(d, i, KW_FUNCTION)
           /\ n0 > w1
           /\ n1 > n0
           /\ LitAt(d, n1, LIT_CALL_RETURN)
           /\ r0 > w2
           /\ ReactFlexMatch(d, r0).ok
        THEN [ok |-> TRUE, start |-> i, func_name |-> Slice(d, n0, n1),
              react_var |-> ReactFlexMatch(d, r0).react,
              flex_var |-> ReactFlexMatch(d, r0).flex]
        ELSE NoMatch

\* RETURN_BLOCK_RE tried at offset i.
RETURN_BLOCK_RE(d, i) ==
    LET w1 == i + Len(KW_RETURN)
        r0 == RunEnd(d, w1, WhiteSpace)
    IN  IF LitAt(d, i, KW_RETURN) /\ r0 > w1 /\ ReactFlexMatch(d, r0).ok
        THEN [ok |-> TRUE, start |-> i,
              react_var |-> ReactFlexMatch(d, r0).react,
              flex_var |-> ReactFlexMatch(d, r0).flex]
        ELSE NoMatch

\* The start offsets finditer yields.  Two matches of one pattern never
\* overlap (inside a match its keyword can only recur as an identifier, which
\* no white space follows), so these are all the offsets where it matches.
FullFuncStarts(d) == {i \in 0..(Len(d) - 1) : FULL_FUNC_RE(d, i).ok}

ReturnStarts(d) == {i \in 0..(Len(d) - 1) : RETURN_BLOCK_RE(d, i).ok}

\* A faulty variant of the extractor that stops at the first closer after an
\* opener, whatever the depth.
extract_block_first_closer(data, start_offset, kind) ==
    LET open_c  == IF kind = "function" THEN "{" ELSE "("
        close_c == IF kind = "function" THEN "}" ELSE ")"
        chunk   == Slice(data, start_offset, start_offset + chunk_size)
        opens   == {i \in 0..(Len(chunk) - 1) : chunk[i + 1] = open_c}
        closes  == {i \in 0..(Len(chunk) - 1) : chunk[i + 1] = close_c}
        ends    == {i \in closes : \E j \in opens : j < i}
    IN  IF ends = {}
        THEN [ok |-> FALSE, block |-> <<>>, length |-> 0]
        ELSE [ok |-> TRUE, block |-> Slice(chunk, 0, MinOf(ends) + 1),
              length |-> MinOf(ends) + 1]

\* A faulty variant of the extractor that scans to the end of the buffer.
extract_block_unbounded(data, start_offset, kind) ==
    LET open_c  == IF kind = "function" THEN "{" ELSE "("
        close_c == IF kind = "function" THEN "}" ELSE ")"
        chunk   == Slice(data, start_offset, Len(data))
        opens   == {i \in 0..(Len(chunk) - 1) : chunk[i + 1] = open_c}
        closes  == {i \in 0..(Len(chunk) - 1) : chunk[i + 1] = close_c}
        ends    == {i \in closes :
                      /\ \E j \in opens : j < i
                      /\ Cardinality({j \in opens : j < i})
                           = Cardinality({j \in closes : j <= i})}
    IN  IF ends = {}
        THEN [ok |-> FALSE, block |-> <<>>, length |-> 0]
        ELSE [ok |-> TRUE, block |-> Slice(chunk, 0, MinOf(ends) + 1),
              length |-> MinOf(ends) + 1]

\* _extract_block(data, start_offset, kind).  The loop keeps a depth counter,
\* +1 per opener and -1 per closer, and stops at the first closer that brings
\* it to 0 once an opener was seen; the depth after byte i is the count of
\* openers minus the count of closers up to i.
extract_block(data, start_offset, kind) ==
    LET open_c  == IF kind = "function" THEN "{" ELSE "("
        close_c == IF kind = "function" THEN "}" ELSE ")"
        chunk   == Slice(data, start_offset, start_offset + chunk_size)
        opens   == {i \in 0..(Len(chunk) - 1) : chunk[i + 1] = open_c}
        closes  == {i \in 0..(Len(chunk) - 1) : chunk[i + 1] = close_c}
        ends    == {i \in closes :
                      /\ \E j \in opens : j < i
                      /\ Cardinality({j \in opens : j < i})
                           = Cardinality({j \in closes : j <= i})}
    IN  IF ends = {}
        THEN [ok |-> FALSE, block |-> <<>>, length |-> 0]
        ELSE [ok |-> TRUE, block |-> Slice(chunk, 0, MinOf(ends) + 1),
              length |-> MinOf(ends) + 1]

\* re.search(rb'createElement\(([\w$]+)' + form, block): the leftmost match.
TextForm(block, form) ==
    LET At(i) == LET a == i + Len(LIT_CREATE_BARE)
                     e == RunEnd(block, a, IdentChars)
                 IN  LitAt(block, i, LIT_CREATE_BARE) /\ e > a /\ LitAt(block, e, form)
        S == {i \in 0..(Len(block) - 1) : At(i)}
    IN  IF S = {} THEN NoMatch
        ELSE LET a == MinOf(S) + Len(LIT_CREATE_BARE)
             IN  [ok |-> TRUE, text_var |-> Slice(block, a, RunEnd(block, a, IdentChars))]

\* A faulty variant of the fallbacks that tries penguinShimmer first.
text_match_shimmer_first(block) ==
    IF TextForm(block, LIT_COLOR_SHIMMER).ok THEN TextForm(block, LIT_COLOR_SHIMMER)
    ELSE IF TextForm(block, LIT_COLOR_CLAWD).ok THEN TextForm(block, LIT_COLOR_CLAWD)
    ELSE TextForm(block, LIT_NULL)

\* The three fallbacks for the text component variable, in priority order.
text_match(block) ==
    IF TextForm(block, LIT_COLOR_CLAWD).ok THEN TextForm(block, LIT_COLOR_CLAWD)
    ELSE IF TextForm(block, LIT_COLOR_SHIMMER).ok THEN TextForm(block, LIT_COLOR_SHIMMER)
    ELSE TextForm(block, LIT_NULL)

\* The context validation of an anchor at offset start.
has_owner_marker(data, start) ==
    Contains(Slice(data, start, start + context_size), CLAWD_BODY)

has_mascot_char(data, start) ==
    \E c \in MASCOT_CHARS : Contains(Slice(data, start, start + context_size), c)

\* Strategy 1 for one FULL_FUNC_RE match: the block it yields, if any.
FullBlockAt(data, i) ==
    LET m  == FULL_FUNC_RE(data, i)
        ex == extract_block(data, i, "function")
    IN  IF /\ has_owner_marker(data, i)
           /\ has_mascot_char(data, i)
           /\ ex.ok
           /\ text_match(ex.block).ok
        THEN [ok |-> TRUE, kind |-> "full_function", offset |-> i,
              length |-> ex.length, block |-> ex.block,
              func_name |-> m.func_name, react_var |-> m.react_var,
              flex_var |-> m.flex_var, text_var |-> text_match(ex.block).text_var]
        ELSE NoMatch

\* Strategy 2 for one RETURN_BLOCK_RE match, given the blocks found so far.
ReturnBlockAt(data, i, blocks) ==
    LET m  == RETURN_BLOCK_RE(data, i)
        ex == extract_block(data, i, "return")
        inside_full == \E k \in 1..Len(blocks) :
                          /\ blocks[k].offset <= i
                          /\ i < blocks[k].offset + blocks[k].length
    IN  IF /\ ~inside_full
           /\ has_owner_marker(data, i)
           /\ has_mascot_char(data, i)
           /\ ex.ok
           /\ text_match(ex.block).ok
        THEN [ok |-> TRUE, kind |-> "return_block", offset |-> i,
              length |-> ex.length, block |-> ex.block,
              func_name |-> <<>>, react_var |-> m.react_var,
              flex_var |-> m.flex_var, text_var |-> text_match(ex.block).text_var]
        ELSE NoMatch

AsBlock(b) == [kind |-> b.kind, offset |-> b.offset, length |-> b.length,
               block |-> b.block, func_name |-> b.func_name,
               react_var |-> b.react_var, flex_var |-> b.flex_var,
               text_var |-> b.text_var]

FullBlocks(data) ==
    LET S == {i \in FullFuncStarts(data) : FullBlockAt(data, i).ok}
    IN  AsTuple([k \in 1..Cardinality(S) |->
                    AsBlock(FullBlockAt(data, SortedSeq(S)[k]))], Cardinality(S))

RECURSIVE ReturnScan(_, _, _)
ReturnScan(data, starts, blocks) ==
    IF starts = <<>> THEN blocks
    ELSE LET b == ReturnBlockAt(data, Head(starts), blocks)
         IN  ReturnScan(data, Tail(starts),
                        IF b.ok THEN Append(blocks, AsBlock(b)) ELSE blocks)

find_mascot_blocks(data) ==
    ReturnScan(data, SortedSeq(ReturnStarts(data)), FullBlocks(data))

(***************************************************************************)
(* Replacement builder                                                     *)
(***************************************************************************)
is_already_patched(block_bytes) == Contains(block_bytes, PATCHED_FINGERPRINT)

\* react.createElement(text,{color:"<color>"},<children>)
ColorRow(react, text, color, children) ==
    react \o LIT_CREATE \o text \o LIT_COLOR_OPEN \o color \o LIT_COLOR_CLOSE
          \o children \o <<")">>

\* The whole candidate for a row-1 padding and a row-3 string.
Render(block_info, padding, row3_str) ==
    LET react == block_info.react_var
        flex  == block_info.flex_var
        text  == block_info.text_var
        row1  == ColorRow(react, text, ROW1_COLOR, ROW1_STR \o padding)
        row2_left  == ColorRow(react, text, ROW2_WING_COLOR, ROW2_WING)
        row2_eye   == ColorRow(react, text, ROW2_EYE_COLOR, ROW2_EYE)
        row2_right == ColorRow(react, text, ROW2_WING_COLOR, ROW2_WING)
        row2  == react \o LIT_CREATE \o text \o LIT_NULL \o row2_left \o <<",">>
                       \o row2_eye \o <<",">> \o row2_right \o <<")">>
        row3  == ColorRow(react, text, ROW3_COLOR, row3_str)
        inner == react \o LIT_CREATE \o flex \o LIT_FLEX_OPTS \o <<",">>
                       \o row1 \o <<",">> \o row2 \o <<",">> \o row3 \o <<")">>
    IN  IF block_info.kind = "full_function"
        THEN LIT_FUNCTION_SP \o block_info.func_name \o LIT_FUNC_OPEN \o inner \o <<"}">>
        ELSE LIT_RETURN_SP \o inner

\* A faulty variant of the builder that pads row 1 only, without the extra
\* spaces of row 3.
build_replacement_row1_only(block_info) ==
    LET target_len == block_info.length
        core   == Render(block_info, <<>>, ROW3_BASE)
        delta  == target_len - Len(core)
        replacement == Render(block_info, Repeat(PAD_UNIT, delta \div 3), ROW3_BASE)
    IN  IF delta < 0 THEN [ok |-> FALSE, bytes |-> <<>>, msg |-> "too_long"]
        ELSE IF delta = 0 THEN [ok |-> TRUE, bytes |-> core, msg |-> "exact_fit"]
        ELSE IF delta % 3 # 0 THEN [ok |-> FALSE, bytes |-> <<>>, msg |-> "cannot_pad"]
        ELSE [ok |-> TRUE, bytes |-> replacement, msg |-> "padded"]

build_replacement(block_info) ==
    LET target_len == block_info.length
        core   == Render(block_info, <<>>, ROW3_BASE)
        delta0 == target_len - Len(core)
        rem0   == delta0 % 3
        row3   == IF rem0 = 1 THEN ROW3_PLUS1
                  ELSE IF rem0 = 2 THEN ROW3_PLUS2 ELSE ROW3_BASE
        core1  == Render(block_info, <<>>, row3)
        delta  == target_len - Len(core1)
        padding_count == delta \div 3
        remainder     == delta % 3
        replacement == Render(block_info, Repeat(PAD_UNIT, padding_count), row3)
    IN  IF delta0 < 0 THEN [ok |-> FALSE, bytes |-> <<>>, msg |-> "too_long"]
        ELSE IF delta0 = 0 THEN [ok |-> TRUE, bytes |-> core, msg |-> "exact_fit"]
        ELSE IF remainder # 0 THEN [ok |-> FALSE, bytes |-> <<>>, msg |-> "cannot_pad"]
        ELSE IF padding_count < 0
        THEN [ok |-> FALSE, bytes |-> <<>>, msg |-> "too_long_after_adjustments"]
        ELSE IF Len(replacement) # target_len
        THEN [ok |-> FALSE, bytes |-> <<>>, msg |-> "final_size_mismatch"]
        ELSE [ok |-> TRUE, bytes |-> replacement, msg |-> "padded"]

(***************************************************************************)
(* Input images.  A stock block is an anchor followed by one text row in   *)
(* the stock colour, a string child of n filler bytes that sets the block  *)
(* length, and the closing delimiters.                                     *)
(***************************************************************************)
\* ,R.createElement(T,{color:"clawd_body"},"<wing glyphs>")
StockRow(react, text) ==
    <<",">> \o react \o LIT_CREATE \o text \o LIT_COLOR_CLAWD \o <<"}", ",">>
            \o ROW2_WING \o <<")">>

\* ,"xxx...x" with n filler bytes
FillerChild(n) == <<",", "\"">> \o Fill("x", n) \o <<"\"">>

\* function NAME(){return R.createElement(F,{...},<stock row>,"xx..x")}
StockFunction(name, react, flex, text, n) ==
    LIT_FUNCTION_SP \o name \o LIT_FUNC_OPEN \o react \o LIT_CREATE \o flex
        \o LIT_FLEX_OPTS \o StockRow(react, text) \o FillerChild(n) \o <<")", "}">>

\* return R.createElement(F,{...},<stock row>,"xx..x")
StockReturn(react, flex, text, n) ==
    LIT_RETURN_SP \o react \o LIT_CREATE \o flex
        \o LIT_FLEX_OPTS \o StockRow(react, text) \o FillerChild(n) \o <<")">>

JunkHead == <<"v", "a", "r", " ", "a", "=", "1", ";">>

JunkTail == <<";", "v", "a", "r", " ", "z", "=", "2", ";">>

\* ;var o="clawd_body";  the owner marker once more, after a block
MarkerTail == <<";", "v", "a", "r", " ", "o", "=", "\"">> \o CLAWD_BODY \o <<"\"", ";">>

\* function g(a){if(a)  ...  }   an enclosing unit for a bare return block
OuterOpen ==
    <<"f", "u", "n", "c", "t", "i", "o", "n", " ", "g", "(", "a", ")", "{",
      "i", "f", "(", "a", ")">>

Id_f == <<"f">>

Id_c == <<"c">>

Id_t == <<"t">>

Id_w == <<"w">>

Id_mB == <<"m", "B">>

Id_P == <<"P">>

Id_L == <<"L">>

Id_X8 == <<"$", "X", "8">>

\* One full unit of 423 bytes (5 more than its rendered template); the owner
\* marker occurs only inside the block.
ImgInside == JunkHead \o StockFunction(Id_f, Id_c, Id_t, Id_w, FillA) \o JunkTail

\* The same unit, with the owner marker also after the block.
ImgOutside == JunkHead \o StockFunction(Id_f, Id_c, Id_t, Id_w, FillA) \o MarkerTail

\* A full unit and, in another unit, a bare return block: two plans.
ImgMixed ==
    StockFunction(Id_X8, Id_mB, Id_P, Id_L, FillB) \o <<";">> \o OuterOpen
        \o StockReturn(Id_mB, Id_P, Id_L, FillC) \o <<"}">> \o MarkerTail

\* A unit that fits and a unit too short for the template, in both orders.
ImgFitShort ==
    StockFunction(Id_f, Id_c, Id_t, Id_w, FillA) \o <<";">>
        \o StockFunction(Id_X8, Id_c, Id_t, Id_w, FillShort) \o MarkerTail

ImgShortFit ==
    StockFunction(Id_X8, Id_c, Id_t, Id_w, FillShort) \o <<";">>
        \o StockFunction(Id_f, Id_c, Id_t, Id_w, FillA) \o MarkerTail

\* No anchor at all: an image of another layout.
ImgNone == JunkHead \o OuterOpen \o <<"}">> \o JunkTail

Images == {ImgInside, ImgOutside, ImgMixed, ImgFitShort, ImgShortFit, ImgNone}

(***************************************************************************)
(* The file system and the invocations                                     *)
(***************************************************************************)
\* Bounds of the model.
MaxRuns == 2

MaxFaults == 1

MaxOtherWrites == 1

Procs == {1, 2}

Modes == {"apply", "dry_run", "restore"}

\* A faulty variant of temp_path: the image is written over the binary itself.
temp_path_in_place == "binary"

\* The binary, backup_path(binary) and the temp_path of the atomic write.
binary == "binary"

backup_path == "bak"

temp_path == "tmp"

Paths == {"binary", "bak", "tmp"}

NoFile == 0

Inodes == 1..5

\* Permission bits: an executable, a freshly created file, an unreadable file.
ExecMode == "0755"

NewFileMode == "0644"

NoAccessMode == "0000"

\* A byte a hole of a sparse file reads as.
ZeroByte == "NUL"

\* A byte no image of the model contains: what another writer leaves.
ForeignByte == "#"

VARIABLES
    fsDir,      \* path -> inode, or NoFile
    fsBytes,    \* inode -> content
    fsMode,     \* inode -> permission bits
    fd,         \* invocation -> inode of its open temp file, or NoFile
    pc,         \* invocation -> position in main()
    args,       \* invocation -> mode of the run
    data,       \* invocation -> the bytes read from the binary
    blocks,     \* invocation -> find_mascot_blocks(data)
    patches,    \* invocation -> the (offset, length, old, new) plans
    modified,   \* invocation -> the working copy
    written,    \* invocation -> bytes of the working copy written to the temp file
    result,     \* invocation -> how the run ended, "running" until then
    cause,      \* invocation -> what triggered the rollback
    runs,       \* invocations started so far
    faults,     \* I/O errors injected so far
    otherWrites,\* writes by another program so far
    hStart,     \* history: the binary's bytes when the run started
    hPrev,      \* history: summary of the invocation's previous run
    hWrote,     \* history: paths the run created or wrote
    hLog,       \* history: gates passed and collaborators invoked, in order
    hBackup,    \* history: what the backup step of the run did
    hRaced      \* history: the disk differed from the scan at apply time

fsVars == <<fsDir, fsBytes, fsMode>>

localVars == <<data, blocks, patches, modified, written, cause>>

histVars == <<hStart, hPrev, hWrote, hLog, hBackup, hRaced>>

vars == <<fsDir, fsBytes, fsMode, fd, pc, args, data, blocks, patches, modified,
          written, result, cause, runs, faults, otherWrites,
          hStart, hPrev, hWrote, hLog, hBackup, hRaced>>

Exists(path) == fsDir[path] # NoFile

FileBytes(path) == fsBytes[fsDir[path]]

\* The inode open() or copy2 gives a path that does not exist yet.
FreshInode ==
    MinOf(Inodes \ ({fsDir[q] : q \in Paths} \cup {fd[p] : p \in Procs}))

\* The next file system state; an inode no path and no descriptor refers to
\* is gone.
FsUpdate(newDir, newFd, newBytes, newMode) ==
    LET used == {newDir[q] : q \in Paths} \cup {newFd[p] : p \in Procs}
    IN  /\ fsDir' = newDir
        /\ fd' = newFd
        /\ fsBytes' = [i \in Inodes |-> IF i \in used THEN newBytes[i] ELSE <<>>]
        /\ fsMode' = [i \in Inodes |-> IF i \in used THEN newMode[i] ELSE NewFileMode]

\* Writing chunk at position pos of a file: what lies beyond the end of the
\* file and before pos becomes a hole.
WriteAt(bytes, pos, chunk) ==
    LET n == IF Len(bytes) > pos + Len(chunk) THEN Len(bytes) ELSE pos + Len(chunk)
    IN  AsTuple([i \in 1..n |->
                    IF i > pos /\ i <= pos + Len(chunk) THEN chunk[i - pos]
                    ELSE IF i <= Len(bytes) THEN bytes[i] ELSE ZeroByte], n)

\* The outcomes of an I/O step; the failing ones are errors the environment
\* injects, at most MaxFaults of them.
IoOutcomes == IF faults < MaxFaults THEN {"ok", "fail"} ELSE {"ok"}

CopyOutcomes ==
    IF faults < MaxFaults THEN {"ok", "fail_early", "fail_partial"} ELSE {"ok"}

Fault(outcome) == faults' = IF outcome = "ok" THEN faults ELSE faults + 1

\* A faulty variant of copy2 that stops half-way without reporting it.
copy2_half(src, dst, outcome) ==
    LET ino   == IF Exists(dst) THEN fsDir[dst] ELSE FreshInode
        all   == FileBytes(src)
    IN  IF outcome = "fail_early" THEN UNCHANGED <<fsDir, fsBytes, fsMode, fd>>
        ELSE FsUpdate([fsDir EXCEPT ![dst] = ino], fd,
                      [fsBytes EXCEPT ![ino] = Slice(all, 0, Len(all) \div 2)],
                      [fsMode EXCEPT ![ino] = fsMode[fsDir[src]]])

\* shutil.copy2(src, dst): dst is opened "wb" (created, or truncated in
\* place), the content is copied, then the permission bits.  It may fail
\* before dst is opened, or part-way through the content.
copy2(src, dst, outcome) ==
    LET ino   == IF Exists(dst) THEN fsDir[dst] ELSE FreshInode
        all   == FileBytes(src)
        bytes == IF outcome = "ok" THEN all ELSE Slice(all, 0, Len(all) \div 2)
        perm  == IF outcome = "ok" THEN fsMode[fsDir[src]]
                 ELSE IF Exists(dst) THEN fsMode[ino] ELSE NewFileMode
    IN  IF outcome = "fail_early" THEN UNCHANGED <<fsDir, fsBytes, fsMode, fd>>
        ELSE FsUpdate([fsDir EXCEPT ![dst] = ino], fd,
                      [fsBytes EXCEPT ![ino] = bytes],
                      [fsMode EXCEPT ![ino] = perm])

\* return 0 of main(): the run is over.
End(p, r) ==
    /\ pc' = [pc EXCEPT ![p] = "idle"]
    /\ result' = [result EXCEPT ![p] = r]

Goto(p, label) ==
    /\ pc' = [pc EXCEPT ![p] = label]
    /\ UNCHANGED result

Log(p, entry) == hLog' = [hLog EXCEPT ![p] = Append(@, entry)]

Wrote(p, path) == hWrote' = [hWrote EXCEPT ![p] = @ \cup {path}]

NoRun == [args |-> "none", result |-> "none", start |-> <<>>, offsets |-> {},
          backup |-> "none"]

\* The states of the backup path and of the binary the model starts from.
BakStates == {"absent", "same", "stale"}

\* The content of a backup left by an earlier run on another version.
StaleImage == ImgNone

Init ==
    \E img \in Images, bak \in BakStates, perm \in {ExecMode, NoAccessMode},
       there \in BOOLEAN :
        /\ (perm = NoAccessMode \/ ~there) => img = ImgNone /\ bak = "absent"
        /\ ~(perm = NoAccessMode /\ ~there)
        /\ fsDir = [q \in Paths |->
                        IF q = binary /\ there THEN 1
                        ELSE IF q = backup_path /\ bak # "absent" THEN 2
                        ELSE NoFile]
        /\ fsBytes = [i \in Inodes |->
                        IF i = 1 /\ there THEN img
                        ELSE IF i = 2 /\ bak = "same" THEN img
                        ELSE IF i = 2 /\ bak = "stale" THEN StaleImage
                        ELSE <<>>]
        /\ fsMode = [i \in Inodes |->
                        IF i = 1 /\ there THEN perm
                        ELSE IF i = 2 /\ bak # "absent" THEN ExecMode
                        ELSE NewFileMode]
        /\ fd = [p \in Procs |-> NoFile]
        /\ pc = [p \in Procs |-> "idle"]
        /\ args = [p \in Procs |-> "none"]
        /\ data = [p \in Procs |-> <<>>]
        /\ blocks = [p \in Procs |-> <<>>]
        /\ patches = [p \in Procs |-> <<>>]
        /\ modified = [p \in Procs |-> <<>>]
        /\ written = [p \in Procs |-> 0]
        /\ result = [p \in Procs |-> "none"]
        /\ cause = [p \in Procs |-> "none"]
        /\ runs = 0
        /\ faults = 0
        /\ otherWrites = 0
        /\ hStart = [p \in Procs |-> <<>>]
        /\ hPrev = [p \in Procs |-> NoRun]
        /\ hWrote = [p \in Procs |-> {}]
        /\ hLog = [p \in Procs |-> <<>>]
        /\ hBackup = [p \in Procs |-> "none"]
        /\ hRaced = [p \in Procs |-> FALSE]

(***************************************************************************)
(* main(): one action per gate and per file system or collaborator step    *)
(***************************************************************************)
\* A new run of the script in mode m.
Invoke(p, m) ==
    /\ pc[p] = "idle"
    /\ runs < MaxRuns
    /\ runs' = runs + 1
    /\ pc' = [pc EXCEPT ![p] = "gate1"]
    /\ args' = [args EXCEPT ![p] = m]
    /\ result' = [result EXCEPT ![p] = "running"]
    /\ data' = [data EXCEPT ![p] = <<>>]
    /\ blocks' = [blocks EXCEPT ![p] = <<>>]
    /\ patches' = [patches EXCEPT ![p] = <<>>]
    /\ modified' = [modified EXCEPT ![p] = <<>>]
    /\ written' = [written EXCEPT ![p] = 0]
    /\ cause' = [cause EXCEPT ![p] = "none"]
    /\ hStart' = [hStart EXCEPT ![p] = IF Exists(binary) THEN FileBytes(binary) ELSE <<>>]
    /\ hPrev' = [hPrev EXCEPT ![p] =
                    [args |-> args[p], result |-> result[p], start |-> hStart[p],
                     offsets |-> {patches[p][k].offset : k \in 1..Len(patches[p])},
                     backup |-> hBackup[p]]]
    /\ hWrote' = [hWrote EXCEPT ![p] = {}]
    /\ hLog' = [hLog EXCEPT ![p] = <<>>]
    /\ hBackup' = [hBackup EXCEPT ![p] = "none"]
    /\ hRaced' = [hRaced EXCEPT ![p] = FALSE]
    /\ UNCHANGED <<fsVars, fd, faults, otherWrites>>

\* Gate 1: the binary is found, is a file and is readable; --restore branches.
Gate1(p) ==
    /\ pc[p] = "gate1"
    /\ IF ~Exists(binary)
       THEN End(p, "TargetNotFound") /\ UNCHANGED hLog
       ELSE IF fsMode[fsDir[binary]] = NoAccessMode
       THEN End(p, "TargetUnreadable") /\ UNCHANGED hLog
       ELSE /\ Goto(p, IF args[p] = "restore" THEN "restore" ELSE "gate2")
            /\ Log(p, "gate1")
    /\ UNCHANGED <<fsVars, fd, args, localVars, runs, faults, otherWrites,
                   hStart, hPrev, hWrote, hBackup, hRaced>>

\* Gate 2: verify_binary_runs(binary) before anything is read.
Gate2(p) ==
    /\ pc[p] = "gate2"
    /\ \E ok \in BOOLEAN :
        IF ok THEN Goto(p, "read") /\ Log(p, "gate2")
        ELSE End(p, "PreflightHealthCheckFailed") /\ Log(p, "verify_failed")
    /\ UNCHANGED <<fsVars, fd, args, localVars, runs, faults, otherWrites,
                   hStart, hPrev, hWrote, hBackup, hRaced>>

\* with open(binary, "rb") as f: data = f.read().  No handler guards it.
ReadBinary(p) ==
    /\ pc[p] = "read"
    /\ \E io \in IoOutcomes :
        /\ Fault(io)
        /\ IF io = "ok" /\ Exists(binary)
           THEN /\ data' = [data EXCEPT ![p] = FileBytes(binary)]
                /\ Goto(p, "gate3")
                /\ Log(p, "read")
           ELSE /\ End(p, "UncaughtOSError")
                /\ UNCHANGED <<data, hLog>>
    /\ UNCHANGED <<fsVars, fd, args, blocks, patches, modified, written, cause,
                   runs, otherWrites, hStart, hPrev, hWrote, hBackup, hRaced>>

needs_patch(bs) == Cardinality({k \in 1..Len(bs) : ~is_already_patched(bs[k].block)})

\* Gate 3: find_mascot_blocks(data), the report, and the nothing-to-do exit.
Gate3(p) ==
    /\ pc[p] = "gate3"
    /\ LET found == find_mascot_blocks(data[p])
       IN  /\ blocks' = [blocks EXCEPT ![p] = found]
           /\ IF found = <<>> THEN End(p, "StructuralDrift") /\ UNCHANGED hLog
              ELSE IF needs_patch(found) = 0
              THEN End(p, "NothingToDo") /\ UNCHANGED hLog
              ELSE Goto(p, "gate4") /\ Log(p, "gate3")
    /\ UNCHANGED <<fsVars, fd, args, data, patches, modified, written, cause,
                   runs, faults, otherWrites, hStart, hPrev, hWrote, hBackup, hRaced>>

\* A faulty variant of the skip of Gate 4 that builds for every block.
ToPatch_all(bs) == SortedSeq(1..Len(bs))

\* The indices of the blocks Gate 4 builds for, in list order.
ToPatch(bs) == SortedSeq({k \in 1..Len(bs) : ~is_already_patched(bs[k].block)})

\* The failure the script reports for a build_replacement message.
BuildFailure(msg) ==
    IF msg \in {"too_long", "too_long_after_adjustments"}
    THEN "ReplacementTooLong" ELSE "ReplacementNoExactFit"

\* A faulty variant of Gate 4 that skips the blocks it cannot build for and
\* goes on with the others.
Gate4_partial(p) ==
    /\ pc[p] = "gate4"
    /\ LET todo   == ToPatch(blocks[p])
           rep(j) == build_replacement(blocks[p][todo[j]])
           built  == SortedSeq({j \in 1..Len(todo) : rep(j).ok})
       IN  IF built = <<>>
           THEN /\ End(p, BuildFailure(rep(1).msg))
                /\ UNCHANGED <<patches, hLog>>
           ELSE /\ patches' = [patches EXCEPT ![p] =
                     AsTuple([j \in 1..Len(built) |->
                                [offset |-> blocks[p][todo[built[j]]].offset,
                                 length |-> blocks[p][todo[built[j]]].length,
                                 old |-> blocks[p][todo[built[j]]].block,
                                 new |-> rep(built[j]).bytes]], Len(built))]
                /\ Goto(p, "gate5")
                /\ Log(p, "gate4")
    /\ UNCHANGED <<fsVars, fd, args, data, blocks, modified, written, cause,
                   runs, faults, otherWrites, hStart, hPrev, hWrote, hBackup, hRaced>>

\* Gate 4: a replacement for every block not yet patched; the first failure
\* ends the run.
Gate4(p) ==
    /\ pc[p] = "gate4"
    /\ LET todo   == ToPatch(blocks[p])
           rep(j) == build_replacement(blocks[p][todo[j]])
           failed == {j \in 1..Len(todo) : ~rep(j).ok}
       IN  IF failed # {}
           THEN /\ End(p, BuildFailure(rep(MinOf(failed)).msg))
                /\ UNCHANGED <<patches, hLog>>
           ELSE /\ patches' = [patches EXCEPT ![p] =
                     AsTuple([j \in 1..Len(todo) |->
                                [offset |-> blocks[p][todo[j]].offset,
                                 length |-> blocks[p][todo[j]].length,
                                 old |-> blocks[p][todo[j]].block,
                                 new |-> rep(j).bytes]], Len(todo))]
                /\ Goto(p, "gate5")
                /\ Log(p, "gate4")
    /\ UNCHANGED <<fsVars, fd, args, data, blocks, modified, written, cause,
                   runs, faults, otherWrites, hStart, hPrev, hWrote, hBackup, hRaced>>

\* Gate 5: every replacement has the length of its block.
Gate5(p) ==
    /\ pc[p] = "gate5"
    /\ IF \E j \in 1..Len(patches[p]) : Len(patches[p][j].new) # patches[p][j].length
       THEN End(p, "SizeMismatch") /\ UNCHANGED hLog
       ELSE Goto(p, "gate6") /\ Log(p, "gate5")
    /\ UNCHANGED <<fsVars, fd, args, localVars, runs, faults, otherWrites,
                   hStart, hPrev, hWrote, hBackup, hRaced>>

\* A faulty variant of the sort that leaves the plans in list order.
sorted_patches_unsorted(ps) == ps

\* sorted(patches, key=lambda p: p[0]): stable, by offset.
sorted_patches(ps) ==
    AsTuple([k \in 1..Len(ps) |->
                ps[CHOOSE j \in 1..Len(ps) :
                      Cardinality({i \in 1..Len(ps) :
                          \/ ps[i].offset < ps[j].offset
                          \/ (ps[i].offset = ps[j].offset /\ i < j)}) = k - 1]],
            Len(ps))

\* A faulty variant of the adjacent-pair test that leaves out the last pair.
overlapping_short(ps) ==
    \E i \in 1..(Len(ps) - 2) :
        sorted_patches(ps)[i].offset + sorted_patches(ps)[i].length
            > sorted_patches(ps)[i + 1].offset

\* The adjacent-pair test of Gate 6.
overlapping(ps) ==
    \E i \in 1..(Len(ps) - 1) :
        sorted_patches(ps)[i].offset + sorted_patches(ps)[i].length
            > sorted_patches(ps)[i + 1].offset

\* A faulty variant of Gate 6 that does not stop a dry run.
Gate6_any_mode(p) ==
    /\ pc[p] = "gate6"
    /\ IF overlapping(patches[p]) THEN End(p, "OverlapDetected") /\ UNCHANGED hLog
       ELSE Goto(p, "backup") /\ Log(p, "gate6")
    /\ UNCHANGED <<fsVars, fd, args, localVars, runs, faults, otherWrites,
                   hStart, hPrev, hWrote, hBackup, hRaced>>

\* Gate 6, then the dry-run report: no overlap, and a dry run stops here.
Gate6(p) ==
    /\ pc[p] = "gate6"
    /\ IF overlapping(patches[p]) THEN End(p, "OverlapDetected") /\ UNCHANGED hLog
       ELSE IF args[p] = "dry_run" THEN End(p, "DryRunComplete") /\ Log(p, "gate6")
       ELSE Goto(p, "backup") /\ Log(p, "gate6")
    /\ UNCHANGED <<fsVars, fd, args, localVars, runs, faults, otherWrites,
                   hStart, hPrev, hWrote, hBackup, hRaced>>

\* A faulty variant of the backup step that never copies.
BackupExists_skipping(p) ==
    /\ pc[p] = "backup"
    /\ Goto(p, "apply")
    /\ UNCHANGED <<fsVars, fd, args, localVars, runs, faults, otherWrites,
                   histVars>>

\* A faulty variant of the backup step that copies whether or not a backup
\* exists.
BackupExists_recopying(p) ==
    /\ pc[p] = "backup"
    /\ Goto(p, "backup_copy")
    /\ UNCHANGED <<fsVars, fd, args, localVars, runs, faults, otherWrites,
                   histVars>>

\* create_backup: the os.path.exists test.
BackupExists(p) ==
    /\ pc[p] = "backup"
    /\ IF Exists(backup_path)
       THEN Goto(p, "apply") /\ hBackup' = [hBackup EXCEPT ![p] = "existing"]
       ELSE Goto(p, "backup_copy") /\ UNCHANGED hBackup
    /\ UNCHANGED <<fsVars, fd, args, localVars, runs, faults, otherWrites,
                   hStart, hPrev, hWrote, hLog, hRaced>>

\* create_backup: shutil.copy2(binary, bak).  A failure is a warning only.
BackupCopy(p) ==
    /\ pc[p] = "backup_copy"
    /\ \E io \in CopyOutcomes :
        /\ Fault(io)
        /\ copy2(binary, backup_path, io)
        /\ hBackup' = [hBackup EXCEPT ![p] = IF io = "ok" THEN "created" ELSE io]
        /\ IF io = "fail_early" THEN UNCHANGED hWrote ELSE Wrote(p, backup_path)
    /\ Goto(p, "apply")
    /\ UNCHANGED <<args, localVars, runs, otherWrites, hStart, hPrev, hLog, hRaced>>

\* The apply loop: buf after the plans from index k on, or the abort of the
\* final safety check.
RECURSIVE ApplyLoop(_, _, _)
ApplyLoop(buf, ps, k) ==
    IF k > Len(ps) THEN [ok |-> TRUE, modified |-> buf]
    ELSE IF Slice(buf, ps[k].offset, ps[k].offset + ps[k].length) # ps[k].old
    THEN [ok |-> FALSE, modified |-> buf]
    ELSE ApplyLoop(SliceAssign(buf, ps[k].offset, ps[k].offset + ps[k].length, ps[k].new),
                   ps, k + 1)

\* Whether the binary on disk differs from the scanned bytes in a plan's range.
DiskDiffers(p) ==
    \E k \in 1..Len(patches[p]) :
        \/ ~Exists(binary)
        \/ Slice(FileBytes(binary), patches[p][k].offset,
                 patches[p][k].offset + patches[p][k].length) # patches[p][k].old

\* Apply patches: modified = bytearray(data), the re-check, the replacement.
ApplyPatches(p) ==
    /\ pc[p] = "apply"
    /\ LET r == ApplyLoop(data[p], patches[p], 1)
       IN  /\ modified' = [modified EXCEPT ![p] = r.modified]
           /\ IF r.ok THEN Goto(p, "size_check") ELSE End(p, "RaceConditionDetected")
    /\ hRaced' = [hRaced EXCEPT ![p] = DiskDiffers(p)]
    /\ UNCHANGED <<fsVars, fd, args, data, blocks, patches, written, cause,
                   runs, faults, otherWrites, hStart, hPrev, hWrote, hLog, hBackup>>

\* Verify total size unchanged.
SizeCheck(p) ==
    /\ pc[p] = "size_check"
    /\ IF Len(modified[p]) # Len(data[p]) THEN End(p, "SizeInvariantViolated")
       ELSE Goto(p, "open_tmp")
    /\ UNCHANGED <<fsVars, fd, args, localVars, runs, faults, otherWrites, histVars>>

\* open(temp_path, "wb"): creates the file, or truncates the one there.
OpenTmp(p) ==
    /\ pc[p] = "open_tmp"
    /\ \E io \in IoOutcomes :
        /\ Fault(io)
        /\ IF io = "ok"
           THEN LET ino == IF Exists(temp_path) THEN fsDir[temp_path] ELSE FreshInode
                IN  /\ FsUpdate([fsDir EXCEPT ![temp_path] = ino],
                                [fd EXCEPT ![p] = ino],
                                [fsBytes EXCEPT ![ino] = <<>>], fsMode)
                    /\ Wrote(p, temp_path)
                    /\ Goto(p, "write_tmp")
           ELSE /\ Goto(p, "cleanup")
                /\ UNCHANGED <<fsVars, fd, hWrote>>
    /\ written' = [written EXCEPT ![p] = 0]
    /\ UNCHANGED <<args, data, blocks, patches, modified, cause, runs, otherWrites,
                   hStart, hPrev, hLog, hBackup, hRaced>>

\* f.write(modified) and the close that ends the with block: the buffer
\* reaches the file in two writes at the descriptor's own position.
WriteTmp(p) ==
    /\ pc[p] = "write_tmp"
    /\ \E io \in IoOutcomes :
        /\ Fault(io)
        /\ LET half  == Len(modified[p]) \div 2
               upto  == IF written[p] = 0 THEN half ELSE Len(modified[p])
               chunk == Slice(modified[p], written[p], upto)
               last  == upto = Len(modified[p])
           IN  IF io = "ok"
               THEN /\ FsUpdate(fsDir, IF last THEN [fd EXCEPT ![p] = NoFile] ELSE fd,
                                [fsBytes EXCEPT ![fd[p]] = WriteAt(@, written[p], chunk)],
                                fsMode)
                    /\ written' = [written EXCEPT ![p] = upto]
                    /\ Goto(p, IF last THEN "copymode" ELSE "write_tmp")
               ELSE /\ FsUpdate(fsDir, [fd EXCEPT ![p] = NoFile], fsBytes, fsMode)
                    /\ UNCHANGED written
                    /\ Goto(p, "cleanup")
    /\ UNCHANGED <<args, data, blocks, patches, modified, cause, runs, otherWrites,
                   histVars>>

\* shutil.copymode(binary, temp_path): by path, so it fails when either is gone.
CopyMode(p) ==
    /\ pc[p] = "copymode"
    /\ \E io \in IoOutcomes :
        /\ Fault(io)
        /\ IF io = "ok" /\ Exists(temp_path) /\ Exists(binary)
           THEN /\ fsMode' = [fsMode EXCEPT ![fsDir[temp_path]] = fsMode[fsDir[binary]]]
                /\ Goto(p, "rename")
           ELSE /\ UNCHANGED fsMode
                /\ Goto(p, "cleanup")
    /\ UNCHANGED <<fsDir, fsBytes, fd, args, localVars, runs, otherWrites, histVars>>

\* os.rename(temp_path, binary): the binary's path now names the temp file.
Rename(p) ==
    /\ pc[p] = "rename"
    /\ \E io \in IoOutcomes :
        /\ Fault(io)
        /\ IF io = "ok" /\ Exists(temp_path)
           THEN /\ FsUpdate([fsDir EXCEPT ![binary] = fsDir[temp_path],
                                          ![temp_path] = NoFile],
                            fd, fsBytes, fsMode)
                /\ Wrote(p, binary)
                /\ Goto(p, "sign")
           ELSE /\ UNCHANGED <<fsVars, fd, hWrote>>
                /\ Goto(p, "cleanup")
    /\ UNCHANGED <<args, localVars, runs, otherWrites,
                   hStart, hPrev, hLog, hBackup, hRaced>>

\* The except OSError handler: os.unlink(temp_path), errors ignored.
Cleanup(p) ==
    /\ pc[p] = "cleanup"
    /\ FsUpdate([fsDir EXCEPT ![temp_path] = NoFile], fd, fsBytes, fsMode)
    /\ End(p, "WriteFailed")
    /\ UNCHANGED <<args, localVars, runs, faults, otherWrites, histVars>>

\* A faulty variant of Gate 8 that goes on to Gate 9 after a signer failure.
Sign_ignoring(p) ==
    /\ pc[p] = "sign"
    /\ \E ok \in BOOLEAN : Log(p, IF ok THEN "sign" ELSE "sign_failed")
    /\ Goto(p, "verify")
    /\ UNCHANGED <<fsVars, fd, args, localVars, runs, faults, otherWrites,
                   hStart, hPrev, hWrote, hBackup, hRaced>>

\* Gate 8: codesign_binary(binary).
Sign(p) ==
    /\ pc[p] = "sign"
    /\ \E ok \in BOOLEAN :
        /\ Log(p, IF ok THEN "sign" ELSE "sign_failed")
        /\ Goto(p, IF ok THEN "verify" ELSE "rollback")
        /\ cause' = [cause EXCEPT ![p] = IF ok THEN @ ELSE "SignFailed"]
    /\ UNCHANGED <<fsVars, fd, args, data, blocks, patches, modified, written,
                   runs, faults, otherWrites, hStart, hPrev, hWrote, hBackup, hRaced>>

\* Gate 9: verify_binary_runs(binary) after patching, and the summary.
Verify(p) ==
    /\ pc[p] = "verify"
    /\ \E ok \in BOOLEAN :
        /\ Log(p, IF ok THEN "verify" ELSE "verify_failed")
        /\ IF ok THEN End(p, "Done") /\ UNCHANGED cause
           ELSE /\ Goto(p, "rollback")
                /\ cause' = [cause EXCEPT ![p] = "PostPatchHealthCheckFailed"]
    /\ UNCHANGED <<fsVars, fd, args, data, blocks, patches, modified, written,
                   runs, faults, otherWrites, hStart, hPrev, hWrote, hBackup, hRaced>>

\* A faulty variant of restore_backup that reports success without copying.
restore_backup_keeping(p, io, next, missing, failed) ==
    IF ~Exists(backup_path)
    THEN /\ End(p, missing)
         /\ UNCHANGED <<fsVars, fd, faults, hWrote, hLog>>
    ELSE /\ Fault(io)
         /\ Log(p, IF io = "ok" THEN "restore" ELSE "restore_failed")
         /\ UNCHANGED <<fsVars, fd, hWrote>>
         /\ IF io = "ok" THEN Goto(p, next) ELSE End(p, failed)

\* restore_backup(binary): the copy of the backup over the binary, in place.
restore_backup(p, io, next, missing, failed) ==
    IF ~Exists(backup_path)
    THEN /\ End(p, missing)
         /\ UNCHANGED <<fsVars, fd, faults, hWrote, hLog>>
    ELSE /\ Fault(io)
         /\ copy2(backup_path, binary, io)
         /\ Log(p, IF io = "ok" THEN "restore" ELSE "restore_failed")
         /\ IF io = "fail_early" THEN UNCHANGED hWrote ELSE Wrote(p, binary)
         /\ IF io = "ok" THEN Goto(p, next) ELSE End(p, failed)

\* The rollback both Gate 8 and Gate 9 run on failure.
Rollback(p) ==
    /\ pc[p] = "rollback"
    /\ \E io \in CopyOutcomes :
        restore_backup(p, io, "rb_sign", "RollbackNoBackup", "RollbackRestoreFailed")
    /\ UNCHANGED <<args, localVars, runs, otherWrites, hStart, hPrev, hBackup, hRaced>>

\* codesign_binary(binary) after the restore; its result is not looked at.
RollbackSign(p) ==
    /\ pc[p] = "rb_sign"
    /\ \E ok \in BOOLEAN : Log(p, IF ok THEN "sign" ELSE "sign_failed")
    /\ Goto(p, "rb_verify")
    /\ UNCHANGED <<fsVars, fd, args, localVars, runs, faults, otherWrites,
                   hStart, hPrev, hWrote, hBackup, hRaced>>

\* verify_binary_runs(binary) after the restore.
RollbackVerify(p) ==
    /\ pc[p] = "rb_verify"
    /\ \E ok \in BOOLEAN :
        /\ Log(p, IF ok THEN "verify" ELSE "verify_failed")
        /\ End(p, IF ok THEN "RolledBack" ELSE "ManualInterventionNeeded")
    /\ UNCHANGED <<fsVars, fd, args, localVars, runs, faults, otherWrites,
                   hStart, hPrev, hWrote, hBackup, hRaced>>

\* --restore: restore_backup, then re-sign, then verify; all end in return 0.
Restore(p) ==
    /\ pc[p] = "restore"
    /\ \E io \in CopyOutcomes :
        restore_backup(p, io, "restore_sign", "RestoreNoBackup", "RestoreFailed")
    /\ UNCHANGED <<args, localVars, runs, otherWrites, hStart, hPrev, hBackup, hRaced>>

\* A faulty variant of the re-sign of --restore that ends the run when the
\* signer fails.
RestoreSign_stopping(p) ==
    /\ pc[p] = "restore_sign"
    /\ \E ok \in BOOLEAN :
        /\ Log(p, IF ok THEN "sign" ELSE "sign_failed")
        /\ IF ok THEN Goto(p, "restore_verify") ELSE End(p, "RestoredUnverified")
    /\ UNCHANGED <<fsVars, fd, args, localVars, runs, faults, otherWrites,
                   hStart, hPrev, hWrote, hBackup, hRaced>>

RestoreSign(p) ==
    /\ pc[p] = "restore_sign"
    /\ \E ok \in BOOLEAN : Log(p, IF ok THEN "sign" ELSE "sign_failed")
    /\ Goto(p, "restore_verify")
    /\ UNCHANGED <<fsVars, fd, args, localVars, runs, faults, otherWrites,
                   hStart, hPrev, hWrote, hBackup, hRaced>>

RestoreVerify(p) ==
    /\ pc[p] = "restore_verify"
    /\ \E ok \in BOOLEAN :
        /\ Log(p, IF ok THEN "verify" ELSE "verify_failed")
        /\ End(p, IF ok THEN "Restored" ELSE "RestoredUnverified")
    /\ UNCHANGED <<fsVars, fd, args, localVars, runs, faults, otherWrites,
                   hStart, hPrev, hWrote, hBackup, hRaced>>

\* Another program rewrites one byte of the binary in place while a run is
\* between its start and its end.
OtherWriter ==
    /\ otherWrites < MaxOtherWrites
    /\ Exists(binary)
    /\ \E p \in Procs : pc[p] # "idle"
    /\ \E k \in {Len(FileBytes(binary)) \div 2, Len(FileBytes(binary))} :
        /\ k >= 1
        /\ fsBytes' = [fsBytes EXCEPT ![fsDir[binary]] = [@ EXCEPT ![k] = ForeignByte]]
    /\ otherWrites' = otherWrites + 1
    /\ UNCHANGED <<fsDir, fsMode, fd, pc, args, localVars, result, runs, faults, histVars>>

(***************************************************************************)
(* Specifications                                                          *)
(***************************************************************************)
\* The steps of the detection and apply pipeline, and those of --restore.
PatchStep(p) ==
    \/ Gate1(p) \/ Gate2(p) \/ ReadBinary(p) \/ Gate3(p) \/ Gate4(p) \/ Gate5(p)
    \/ Gate6(p) \/ BackupExists(p) \/ BackupCopy(p) \/ ApplyPatches(p)
    \/ SizeCheck(p) \/ OpenTmp(p) \/ WriteTmp(p) \/ CopyMode(p) \/ Rename(p)
    \/ Cleanup(p) \/ Sign(p) \/ Verify(p) \/ Rollback(p) \/ RollbackSign(p)
    \/ RollbackVerify(p)

RestoreStep(p) == Restore(p) \/ RestoreSign(p) \/ RestoreVerify(p)

\* One invocation at a time, in any mode.
Next == (\E m \in Modes : Invoke(1, m)) \/ PatchStep(1) \/ RestoreStep(1)

Spec == Init /\ [][Next]_vars

\* Apply runs of one invocation while another program writes the binary.
InitRace == Init /\ fsDir[backup_path] = NoFile

NextRace == Invoke(1, "apply") \/ PatchStep(1) \/ OtherWriter

SpecRace == InitRace /\ [][NextRace]_vars

\* Two apply invocations on the same binary, interleaved step by step.
InitTwo == Init /\ fsDir[backup_path] = NoFile /\ fsBytes[1] = ImgOutside

NextTwo == \E p \in Procs : Invoke(p, "apply") \/ PatchStep(p)

SpecTwo == InitTwo /\ [][NextTwo]_vars

(***************************************************************************)
(* The patch-set validator and the applier on synthetic plans              *)
(***************************************************************************)
\* Bounds of the synthetic plans: how many, where, how long.
MaxPlans == 3

MaxOffset == 3

MaxPlanLen == 2

\* A run that has passed Gates 1 to 5 with a list of (offset, length, old,
\* new) plans, in any order of offsets, over an image of filler bytes.
InitPlans ==
    LET PlanData   == Fill("x", MaxOffset + MaxPlanLen)
        Plan(o, l) == [offset |-> o, length |-> l,
                       old |-> Slice(PlanData, o, o + l), new |-> Fill("y", l)]
        PlanLists  ==
            UNION {[1..n -> {Plan(o, l) : o \in 0..MaxOffset, l \in 1..MaxPlanLen}] :
                      n \in 1..MaxPlans}
    IN
    \E ps \in PlanLists, m \in {"apply", "dry_run"} :
        /\ fsDir = [q \in Paths |-> IF q = binary THEN 1 ELSE NoFile]
        /\ fsBytes = [i \in Inodes |-> IF i = 1 THEN PlanData ELSE <<>>]
        /\ fsMode = [i \in Inodes |-> IF i = 1 THEN ExecMode ELSE NewFileMode]
        /\ fd = [p \in Procs |-> NoFile]
        /\ pc = [p \in Procs |-> IF p = 1 THEN "gate6" ELSE "idle"]
        /\ args = [p \in Procs |-> IF p = 1 THEN m ELSE "none"]
        /\ data = [p \in Procs |-> IF p = 1 THEN PlanData ELSE <<>>]
        /\ blocks = [p \in Procs |-> <<>>]
        /\ patches = [p \in Procs |-> IF p = 1 THEN AsTuple(ps, Len(ps)) ELSE <<>>]
        /\ modified = [p \in Procs |-> <<>>]
        /\ written = [p \in Procs |-> 0]
        /\ result = [p \in Procs |-> IF p = 1 THEN "running" ELSE "none"]
        /\ cause = [p \in Procs |-> "none"]
        /\ runs = 1
        /\ faults = 0
        /\ otherWrites = 0
        /\ hStart = [p \in Procs |-> IF p = 1 THEN PlanData ELSE <<>>]
        /\ hPrev = [p \in Procs |-> NoRun]
        /\ hWrote = [p \in Procs |-> {}]
        /\ hLog = [p \in Procs |->
                     IF p = 1 THEN <<"gate1", "gate2", "read", "gate3", "gate4", "gate5">>
                     ELSE <<>>]
        /\ hBackup = [p \in Procs |-> "none"]
        /\ hRaced = [p \in Procs |-> FALSE]

NextPlans ==
    \/ Gate6(1) \/ BackupExists(1) \/ BackupCopy(1) \/ ApplyPatches(1)
    \/ SizeCheck(1) \/ OpenTmp(1) \/ WriteTmp(1) \/ CopyMode(1) \/ Rename(1)
    \/ Cleanup(1)

SpecPlans == InitPlans /\ [][NextPlans]_vars

(***************************************************************************)
(* The replacement builder on blocks of every deficit                      *)
(***************************************************************************)
\* Bounds of the synthetic blocks: the largest deficit and the largest excess
\* of the block's length over the unpadded template.
MaxDeficit == 48

MaxExcess == 3

\* A dry run that has passed Gates 1 to 3 with one detected block of either
\* kind, with short or long identifiers, whose length is the unpadded
\* template's plus d.
InitPad ==
    \E d \in (0 - MaxExcess)..MaxDeficit, k \in {"full_function", "return_block"},
       long \in BOOLEAN :
        LET ids  == IF long
                    THEN [func_name |-> Id_X8, react_var |-> Id_mB,
                          flex_var |-> Id_P, text_var |-> Id_L]
                    ELSE [func_name |-> Id_f, react_var |-> Id_c,
                          flex_var |-> Id_t, text_var |-> Id_w]
            bare == [kind |-> k, offset |-> 0, length |-> 0, block |-> <<>>,
                     func_name |-> ids.func_name, react_var |-> ids.react_var,
                     flex_var |-> ids.flex_var, text_var |-> ids.text_var]
            n    == Len(Render(bare, <<>>, ROW3_BASE)) + d
            b    == [bare EXCEPT !.length = n, !.block = Fill("x", n)]
        IN  /\ fsDir = [q \in Paths |-> IF q = binary THEN 1 ELSE NoFile]
            /\ fsBytes = [i \in Inodes |-> IF i = 1 THEN b.block ELSE <<>>]
            /\ fsMode = [i \in Inodes |-> IF i = 1 THEN ExecMode ELSE NewFileMode]
            /\ fd = [p \in Procs |-> NoFile]
            /\ pc = [p \in Procs |-> IF p = 1 THEN "gate4" ELSE "idle"]
            /\ args = [p \in Procs |-> IF p = 1 THEN "dry_run" ELSE "none"]
            /\ data = [p \in Procs |-> IF p = 1 THEN b.block ELSE <<>>]
            /\ blocks = [p \in Procs |-> IF p = 1 THEN <<b>> ELSE <<>>]
            /\ patches = [p \in Procs |-> <<>>]
            /\ modified = [p \in Procs |-> <<>>]
            /\ written = [p \in Procs |-> 0]
            /\ result = [p \in Procs |-> IF p = 1 THEN "running" ELSE "none"]
            /\ cause = [p \in Procs |-> "none"]
            /\ runs = 1
            /\ faults = 0
            /\ otherWrites = 0
            /\ hStart = [p \in Procs |-> IF p = 1 THEN b.block ELSE <<>>]
            /\ hPrev = [p \in Procs |-> NoRun]
            /\ hWrote = [p \in Procs |-> {}]
            /\ hLog = [p \in Procs |->
                         IF p = 1 THEN <<"gate1", "gate2", "read", "gate3">> ELSE <<>>]
            /\ hBackup = [p \in Procs |-> "none"]
            /\ hRaced = [p \in Procs |-> FALSE]

SpecPad == InitPad /\ [][Gate4(1) \/ Gate5(1) \/ Gate6(1)]_vars

(***************************************************************************)
(* Runs on a 600-byte buffer with a 210-byte unit, and on an image that is *)
(* patched in part                                                         *)
(***************************************************************************)
\* The binary is either a 600-byte buffer holding one full unit f of 210
\* bytes with identifiers c, t, w and the owner marker after it, or an image
\* whose first unit already holds the replacement build_replacement gives it
\* while its second unit is stock, the owner marker after each.  No backup
\* exists.
InitScenario ==
    LET unit(n)   == StockFunction(Id_f, Id_c, Id_t, Id_w, n)
        head      == JunkHead \o unit(210 - Len(unit(0))) \o MarkerTail
        Img210    == head \o Fill("x", 600 - Len(head))
        stock     == unit(FillA)
        patched   == build_replacement(
                        [kind |-> "full_function", offset |-> 0,
                         length |-> Len(stock), block |-> stock,
                         func_name |-> Id_f, react_var |-> Id_c,
                         flex_var |-> Id_t, text_var |-> Id_w]).bytes
        ImgHalf   == patched \o MarkerTail
                        \o StockFunction(Id_X8, Id_c, Id_t, Id_w, FillA) \o MarkerTail
    IN
    \E img \in {Img210, ImgHalf} :
        /\ fsDir = [q \in Paths |-> IF q = binary THEN 1 ELSE NoFile]
        /\ fsBytes = [i \in Inodes |-> IF i = 1 THEN img ELSE <<>>]
        /\ fsMode = [i \in Inodes |-> IF i = 1 THEN ExecMode ELSE NewFileMode]
        /\ fd = [p \in Procs |-> NoFile]
        /\ pc = [p \in Procs |-> "idle"]
        /\ args = [p \in Procs |-> "none"]
        /\ data = [p \in Procs |-> <<>>]
        /\ blocks = [p \in Procs |-> <<>>]
        /\ patches = [p \in Procs |-> <<>>]
        /\ modified = [p \in Procs |-> <<>>]
        /\ written = [p \in Procs |-> 0]
        /\ result = [p \in Procs |-> "none"]
        /\ cause = [p \in Procs |-> "none"]
        /\ runs = 0
        /\ faults = 0
        /\ otherWrites = 0
        /\ hStart = [p \in Procs |-> <<>>]
        /\ hPrev = [p \in Procs |-> NoRun]
        /\ hWrote = [p \in Procs |-> {}]
        /\ hLog = [p \in Procs |-> <<>>]
        /\ hBackup = [p \in Procs |-> "none"]
        /\ hRaced = [p \in Procs |-> FALSE]

SpecScenario == InitScenario /\ [][Next]_vars

\* Apply runs on two images in which blocks meet in unusual ways: a return
\* fragment whose own row holds the replacement's fingerprint and whose last
\* child is a stock unit, and a stock return fragment at a lower offset than
\* two stock units.  No backup exists.
SpecLayouts ==
    /\ LET ImgWrapped == OuterOpen \o LIT_RETURN_SP \o Id_c \o LIT_CREATE \o Id_t
                           \o LIT_FLEX_OPTS \o <<",">> \o Id_c \o LIT_CREATE \o Id_w
                           \o <<",", "{">> \o PATCHED_FINGERPRINT \o <<")", ",">>
                           \o StockFunction(Id_X8, Id_c, Id_t, Id_w, FillA)
                           \o <<")", "}">> \o MarkerTail
           ImgReturnFirst == OuterOpen \o StockReturn(Id_c, Id_t, Id_w, FillC) \o <<"}", ";">>
                           \o StockFunction(Id_f, Id_c, Id_t, Id_w, FillA) \o <<";">>
                           \o StockFunction(Id_X8, Id_c, Id_t, Id_w, FillB) \o MarkerTail
       IN
       \E img \in {ImgWrapped, ImgReturnFirst} :
           /\ fsDir = [q \in Paths |-> IF q = binary THEN 1 ELSE NoFile]
           /\ fsBytes = [i \in Inodes |-> IF i = 1 THEN img ELSE <<>>]
           /\ fsMode = [i \in Inodes |-> IF i = 1 THEN ExecMode ELSE NewFileMode]
           /\ fd = [p \in Procs |-> NoFile]
           /\ pc = [p \in Procs |-> "idle"]
           /\ args = [p \in Procs |-> "none"]
           /\ data = [p \in Procs |-> <<>>]
           /\ blocks = [p \in Procs |-> <<>>]
           /\ patches = [p \in Procs |-> <<>>]
           /\ modified = [p \in Procs |-> <<>>]
           /\ written = [p \in Procs |-> 0]
           /\ result = [p \in Procs |-> "none"]
           /\ cause = [p \in Procs |-> "none"]
           /\ runs = 0
           /\ faults = 0
           /\ otherWrites = 0
           /\ hStart = [p \in Procs |-> <<>>]
           /\ hPrev = [p \in Procs |-> NoRun]
           /\ hWrote = [p \in Procs |-> {}]
           /\ hLog = [p \in Procs |-> <<>>]
           /\ hBackup = [p \in Procs |-> "none"]
           /\ hRaced = [p \in Procs |-> FALSE]
    /\ [][Invoke(1, "apply") \/ PatchStep(1)]_vars

(***************************************************************************)
(* The delimiter extractor on synthetic buffers                            *)
(***************************************************************************)
\* Bounds of the synthetic buffers: the longest tail of delimiters and filler
\* after the anchor and its first row, and the most text rows of a unit.
MaxTail == 2

MaxRows == 3

\* A dry run that has read its binary and is about to scan it.  The binary is
\* an anchor of either kind with its stock row, at offset 0 or after other
\* bytes, followed by any tail of braces, parentheses and filler; or a full
\* unit one byte shorter than the scan window, as long as it, or one byte
\* longer, followed by a unit that fits; or a full unit inside a full unit,
\* inside a return fragment, or a return fragment inside a return fragment;
\* or a unit of either kind with up to MaxRows text rows, each in the
\* clawd_body, the penguinShimmer or the null form and each with its own
\* identifier, the owner marker and a glyph after the unit.
InitExtract ==
    LET anchor(k) == (IF k = "function"
                      THEN LIT_FUNCTION_SP \o Id_f \o LIT_FUNC_OPEN ELSE LIT_RETURN_SP)
                         \o Id_c \o LIT_CREATE \o Id_t \o LIT_FLEX_OPTS
                         \o StockRow(Id_c, Id_w)
        Tails     == UNION {{AsTuple(t, n) : t \in [1..n -> {"{", "}", "(", ")", "x"}]} :
                               n \in 0..MaxTail}
        Small     == {(IF junk THEN JunkHead ELSE <<>>) \o anchor(k) \o t :
                         junk \in BOOLEAN, k \in {"function", "return"}, t \in Tails}
        unit(n)   == StockFunction(Id_f, Id_c, Id_t, Id_w, n)
        Big       == {unit(chunk_size + e - Len(unit(0))) \o <<";">>
                         \o StockFunction(Id_X8, Id_c, Id_t, Id_w, FillA) \o MarkerTail :
                         e \in {0 - 1, 0, 1}}
        inner     == StockFunction(Id_X8, Id_c, Id_t, Id_w, FillA)
        Nested    == {anchor("function") \o <<",">> \o inner \o <<")", "}">> \o MarkerTail,
                      OuterOpen \o anchor("return") \o <<",">> \o inner
                          \o <<")", "}">> \o MarkerTail,
                      OuterOpen \o anchor("return") \o <<",">>
                          \o StockReturn(Id_c, Id_t, Id_w, FillA)
                          \o <<")", "}">> \o MarkerTail}
        Ids       == <<Id_w, Id_L, Id_P, Id_mB, Id_X8>>
        row(i, f) == <<",">> \o Id_c \o LIT_CREATE \o Ids[((i - 1) % Len(Ids)) + 1] \o f
                         \o (IF f = LIT_NULL THEN <<>> ELSE <<"}", ",">>)
                         \o ROW2_WING \o <<")">>
        RECURSIVE rows(_, _)
        rows(fs, i) == IF i > Len(fs) THEN <<>> ELSE row(i, fs[i]) \o rows(fs, i + 1)
        Forms     == UNION {{AsTuple(t, n) :
                               t \in [1..n -> {LIT_COLOR_CLAWD, LIT_COLOR_SHIMMER, LIT_NULL}]} :
                               n \in 0..MaxRows}
        Rows      == {(IF k = "function"
                       THEN LIT_FUNCTION_SP \o Id_f \o LIT_FUNC_OPEN ELSE LIT_RETURN_SP)
                          \o Id_c \o LIT_CREATE \o Id_t \o LIT_FLEX_OPTS \o rows(fs, 1)
                          \o (IF k = "function" THEN <<")", "}">> ELSE <<")">>)
                          \o MarkerTail \o ROW2_WING :
                         k \in {"function", "return"}, fs \in Forms}
    IN
    \E img \in Small \cup Big \cup Nested \cup Rows, m \in {"dry_run"} :
        /\ fsDir = [q \in Paths |-> IF q = binary THEN 1 ELSE NoFile]
        /\ fsBytes = [i \in Inodes |-> IF i = 1 THEN img ELSE <<>>]
        /\ fsMode = [i \in Inodes |-> IF i = 1 THEN ExecMode ELSE NewFileMode]
        /\ fd = [p \in Procs |-> NoFile]
        /\ pc = [p \in Procs |-> IF p = 1 THEN "gate3" ELSE "idle"]
        /\ args = [p \in Procs |-> IF p = 1 THEN m ELSE "none"]
        /\ data = [p \in Procs |-> IF p = 1 THEN img ELSE <<>>]
        /\ blocks = [p \in Procs |-> <<>>]
        /\ patches = [p \in Procs |-> <<>>]
        /\ modified = [p \in Procs |-> <<>>]
        /\ written = [p \in Procs |-> 0]
        /\ result = [p \in Procs |-> IF p = 1 THEN "running" ELSE "none"]
        /\ cause = [p \in Procs |-> "none"]
        /\ runs = 1
        /\ faults = 0
        /\ otherWrites = 0
        /\ hStart = [p \in Procs |-> IF p = 1 THEN img ELSE <<>>]
        /\ hPrev = [p \in Procs |-> NoRun]
        /\ hWrote = [p \in Procs |-> {}]
        /\ hLog = [p \in Procs |-> IF p = 1 THEN <<"gate1", "gate2", "read">> ELSE <<>>]
        /\ hBackup = [p \in Procs |-> "none"]
        /\ hRaced = [p \in Procs |-> FALSE]

SpecExtract == InitExtract /\ [][Gate3(1) \/ Gate4(1) \/ Gate5(1) \/ Gate6(1)]_vars

(***************************************************************************)
(* patch-credential-cache.py: the research script                          *)
(***************************************************************************)
\* The command lines: no flag, --dry-run, --verbose, and --apply, which the
\* parser does not know.
CacheModes == {"cache", "cache_dry_run", "cache_verbose", "cache_apply"}

\* A faulty variant of the flag: store_true with the default False.
cache_dry_run_store_true(m) == m = "cache_dry_run"

\* args.dry_run: action='store_true', default=True.
cache_dry_run(m) == IF m = "cache_dry_run" THEN TRUE ELSE TRUE

\* The two patterns propose_patch needs: iB.cache?. clear?.() with optional
\* white space in between, and iB=oR(()=>{
CachePatterns ==
    [clear_head |-> <<"i", "B", ".", "c", "a", "c", "h", "e", "?", ".">>,
     clear_tail |-> <<"c", "l", "e", "a", "r", "?", ".", "(", ")">>,
     assign     |-> <<"i", "B", "=", "o", "R", "(", "(", ")", "=", ">", "{">>]

\* parser.parse_args() and the choice of binary_path; an unknown option ends
\* the run in the parser.
CacheInvoke(p, m) ==
    /\ pc[p] = "idle"
    /\ runs < MaxRuns
    /\ runs' = runs + 1
    /\ args' = [args EXCEPT ![p] = m]
    /\ IF m = "cache_apply"
       THEN End(p, "CacheUsageError")
       ELSE /\ pc' = [pc EXCEPT ![p] = "cache_read"]
            /\ result' = [result EXCEPT ![p] = "running"]
    /\ data' = [data EXCEPT ![p] = <<>>]
    /\ blocks' = [blocks EXCEPT ![p] = <<>>]
    /\ patches' = [patches EXCEPT ![p] = <<>>]
    /\ modified' = [modified EXCEPT ![p] = <<>>]
    /\ written' = [written EXCEPT ![p] = 0]
    /\ cause' = [cause EXCEPT ![p] = "none"]
    /\ hStart' = [hStart EXCEPT ![p] = IF Exists(binary) THEN FileBytes(binary) ELSE <<>>]
    /\ hPrev' = [hPrev EXCEPT ![p] =
                    [args |-> args[p], result |-> result[p], start |-> hStart[p],
                     offsets |-> {patches[p][k].offset : k \in 1..Len(patches[p])},
                     backup |-> hBackup[p]]]
    /\ hWrote' = [hWrote EXCEPT ![p] = {}]
    /\ hLog' = [hLog EXCEPT ![p] = <<>>]
    /\ hBackup' = [hBackup EXCEPT ![p] = "none"]
    /\ hRaced' = [hRaced EXCEPT ![p] = FALSE]
    /\ UNCHANGED <<fsVars, fd, faults, otherWrites>>

\* os.path.getsize, the Mode line, and open(binary_path, 'rb') / f.read().
\* No handler guards them.
CacheRead(p) ==
    /\ pc[p] = "cache_read"
    /\ \E io \in IoOutcomes :
        /\ Fault(io)
        /\ IF ~Exists(binary)
           THEN End(p, "UncaughtOSError") /\ UNCHANGED <<data, hLog>>
           ELSE IF io = "ok" /\ fsMode[fsDir[binary]] # NoAccessMode
           THEN /\ data' = [data EXCEPT ![p] = FileBytes(binary)]
                /\ Goto(p, "cache_report")
                /\ hLog' = [hLog EXCEPT ![p] =
                              <<IF cache_dry_run(args[p]) THEN "mode_dry_run"
                                ELSE "mode_apply", "read">>]
           ELSE /\ End(p, "UncaughtOSError")
                /\ hLog' = [hLog EXCEPT ![p] =
                              <<IF cache_dry_run(args[p]) THEN "mode_dry_run"
                                ELSE "mode_apply">>]
                /\ UNCHANGED data
    /\ UNCHANGED <<fsVars, fd, args, blocks, patches, modified, written, cause,
                   runs, otherWrites, hStart, hPrev, hWrote, hBackup, hRaced>>

\* search_patterns, propose_patch and the summary: sys.exit(1) when a pattern
\* propose_patch needs is missing, else the next steps are printed.
CacheReport(p) ==
    /\ pc[p] = "cache_report"
    /\ LET d == data[p]
           iB_cache_clear ==
               \E i \in 0..(Len(d) - 1) :
                   /\ LitAt(d, i, CachePatterns.clear_head)
                   /\ LitAt(d, RunEnd(d, i + Len(CachePatterns.clear_head), WhiteSpace),
                            CachePatterns.clear_tail)
           iB_assignment == Contains(d, CachePatterns.assign)
       IN  End(p, IF iB_cache_clear /\ iB_assignment THEN "CacheReady" ELSE "CacheBlocked")
    /\ UNCHANGED <<fsVars, fd, args, localVars, runs, faults, otherWrites, histVars>>

\* The binary holds the patterns, one of them, or none; or it is unreadable
\* or missing.
InitCache ==
    LET clear == CachePatterns.clear_head \o <<" ">> \o CachePatterns.clear_tail
        Both  == JunkHead \o CachePatterns.assign \o <<"}", ")", ";">> \o clear \o JunkTail
    IN
    \E img \in {Both, JunkHead \o clear, JunkHead \o CachePatterns.assign, ImgInside},
       perm \in {ExecMode, NoAccessMode}, there \in BOOLEAN,
       bak \in BOOLEAN :
        /\ fsDir = [q \in Paths |-> IF q = binary /\ there THEN 1
                                    ELSE IF q = backup_path /\ bak THEN 2 ELSE NoFile]
        /\ fsBytes = [i \in Inodes |-> IF i = 1 /\ there THEN img
                                      ELSE IF i = 2 /\ bak THEN StaleImage ELSE <<>>]
        /\ fsMode = [i \in Inodes |-> IF i = 1 /\ there THEN perm
                                     ELSE IF i = 2 /\ bak THEN ExecMode ELSE NewFileMode]
        /\ fd = [p \in Procs |-> NoFile]
        /\ pc = [p \in Procs |-> "idle"]
        /\ args = [p \in Procs |-> "none"]
        /\ data = [p \in Procs |-> <<>>]
        /\ blocks = [p \in Procs |-> <<>>]
        /\ patches = [p \in Procs |-> <<>>]
        /\ modified = [p \in Procs |-> <<>>]
        /\ written = [p \in Procs |-> 0]
        /\ result = [p \in Procs |-> "none"]
        /\ cause = [p \in Procs |-> "none"]
        /\ runs = 0
        /\ faults = 0
        /\ otherWrites = 0
        /\ hStart = [p \in Procs |-> <<>>]
        /\ hPrev = [p \in Procs |-> NoRun]
        /\ hWrote = [p \in Procs |-> {}]
        /\ hLog = [p \in Procs |-> <<>>]
        /\ hBackup = [p \in Procs |-> "none"]
        /\ hRaced = [p \in Procs |-> FALSE]

SpecCache ==
    InitCache /\ [][(\E m \in CacheModes : CacheInvoke(1, m)) \/ CacheRead(1)
                      \/ CacheReport(1)]_vars

(***************************************************************************)
(* Properties                                                              *)
(***************************************************************************)
\* The run of invocation p is over.
Ended(p) == pc[p] = "idle" /\ result[p] \notin {"none", "running"}

\* The run of invocation p has passed the gate or step that logs entry.
Passed(p, entry) == \E i \in 1..Len(hLog[p]) : hLog[p][i] = entry

\* The positions of an apply run before the rename has happened.
BeforeRename ==
    {"gate2", "read", "gate3", "gate4", "gate5", "gate6", "backup", "backup_copy",
     "apply", "size_check", "open_tmp", "write_tmp", "copymode", "rename", "cleanup"}

\* The positions of an apply run from the apply loop on.
FromApply ==
    {"apply", "size_check", "open_tmp", "write_tmp", "copymode", "rename", "cleanup",
     "sign", "verify", "rollback", "rb_sign", "rb_verify"}

\* The working buffer after the first k plans of invocation p.
AppliedPrefix(p, k) == ApplyLoop(data[p], SubSeq(patches[p], 1, k), 1).modified

\* C1: race guard.  When the bytes on disk in some plan's range differ, at
\* apply time, from the bytes the scan read, the run (with no I/O error in
\* its way) does not write the binary, ends with the race-condition error,
\* and the other writer's byte is still on disk.
C1_RaceGuard ==
    \A p \in Procs :
        (args[p] = "apply" /\ hRaced[p] /\ faults = 0) =>
            /\ binary \notin hWrote[p]
            /\ Ended(p) => result[p] = "RaceConditionDetected"
            /\ \E i \in 1..Len(FileBytes(binary)) : FileBytes(binary)[i] = ForeignByte

\* C2, as stated: an apply run that ends in a write failure or after a signer
\* or post-patch health-check failure leaves the binary equal to its bytes
\* before the run or to the bytes of the backup.
C2_OriginalOrBackupRemains ==
    \A p \in Procs :
        (Ended(p) /\ args[p] = "apply"
            /\ result[p] \in {"WriteFailed", "RollbackNoBackup", "RollbackRestoreFailed",
                              "RolledBack", "ManualInterventionNeeded"}) =>
            \/ FileBytes(binary) = hStart[p]
            \/ Exists(backup_path) /\ FileBytes(binary) = FileBytes(backup_path)

\* C2, amended: after a write failure the binary holds its bytes from before
\* the run; after a rollback whose restore copy succeeded it holds the bytes
\* of the backup; with no backup file the patched image remains; after a
\* failed restore copy the patched image or the first part of the backup
\* remains.
C2_FailureOutcomes ==
    \A p \in Procs :
        (Ended(p) /\ args[p] = "apply") =>
            /\ result[p] = "WriteFailed" => FileBytes(binary) = hStart[p]
            /\ result[p] \in {"RolledBack", "ManualInterventionNeeded"} =>
                 Exists(backup_path) /\ FileBytes(binary) = FileBytes(backup_path)
            /\ result[p] = "RollbackNoBackup" =>
                 ~Exists(backup_path) /\ FileBytes(binary) = modified[p]
            /\ result[p] = "RollbackRestoreFailed" =>
                 /\ Exists(backup_path)
                 /\ FileBytes(binary) \in
                      {modified[p],
                       Slice(FileBytes(backup_path), 0, Len(FileBytes(backup_path)) \div 2)}

\* A rollback that put the backup's bytes back over a patched binary.
C2_Witness ==
    \E p \in Procs :
        /\ Ended(p) /\ args[p] = "apply" /\ result[p] = "RolledBack"
        /\ FileBytes(binary) = FileBytes(backup_path)
        /\ FileBytes(binary) # modified[p]

\* C3, as stated: in an apply run that has overwritten the binary a backup
\* file exists, so a run whose backup could not be created never writes.
C3_BackupExistsBeforeWrite ==
    \A p \in Procs :
        (args[p] = "apply" /\ binary \in hWrote[p]) => Exists(backup_path)

\* C3, amended: the backup step comes before the apply loop, the size check
\* before the write, and the write before the rename; the backup file exists
\* from then on unless the copy failed before creating it, and holds the
\* binary's bytes from before the run when this run's copy succeeded.
C3_BackupStepBeforeWrite ==
    \A p \in Procs :
        args[p] = "apply" =>
            /\ (pc[p] \in FromApply \/ hWrote[p] \cap {temp_path, binary} # {}) =>
                 hBackup[p] # "none"
            /\ hBackup[p] \in {"existing", "created", "fail_partial"} =>
                 Exists(backup_path)
            /\ hBackup[p] = "created" => FileBytes(backup_path) = hStart[p]
            /\ temp_path \in hWrote[p] =>
                 modified[p] # <<>> /\ Len(modified[p]) = Len(data[p])
            /\ (binary \in hWrote[p] /\ pc[p] \in {"sign", "verify"}) =>
                 temp_path \in hWrote[p]

\* The binary has been overwritten although the backup copy failed and no
\* backup file exists.
C3_Witness ==
    \E p \in Procs :
        /\ args[p] = "apply" /\ pc[p] = "sign" /\ binary \in hWrote[p]
        /\ hBackup[p] = "fail_early" /\ ~Exists(backup_path)

\* The apply run before this restore run ended well and this restore run
\* copied the backup back.
RestoredAfterApply(p) ==
    /\ Ended(p) /\ args[p] = "restore"
    /\ result[p] \in {"Restored", "RestoredUnverified"}
    /\ hPrev[p].args = "apply" /\ hPrev[p].result = "Done"

\* C4, as stated: a successful apply run followed by a restore run leaves the
\* binary equal to its bytes before the apply run, whatever the backup path
\* held at the start.
C4_RoundTrip ==
    \A p \in Procs :
        RestoredAfterApply(p) => FileBytes(binary) = hPrev[p].start

\* C4, amended: a successful apply run followed by a restore run leaves the
\* binary equal to the backup file, and equal to its bytes before the apply
\* run when that run created the backup.
C4_RoundTripFromOwnBackup ==
    \A p \in Procs :
        RestoredAfterApply(p) =>
            /\ FileBytes(binary) = FileBytes(backup_path)
            /\ hPrev[p].backup = "created" => FileBytes(binary) = hPrev[p].start

\* A restore that undid the patch of the apply run that created the backup.
C4_Witness ==
    \E p \in Procs :
        /\ RestoredAfterApply(p)
        /\ hPrev[p].backup = "created" /\ hPrev[p].offsets # {}
        /\ FileBytes(binary) = hPrev[p].start
        /\ FileBytes(binary) # hStart[p]

\* C5: idempotence.  An apply run that scans the binary after a successful
\* apply run finds every block that run patched, flags it as already patched,
\* ends with nothing to do and leaves the bytes as they were.
C5_Idempotent ==
    \A p \in Procs :
        (Ended(p) /\ args[p] = "apply" /\ Passed(p, "read")
            /\ hPrev[p].args = "apply" /\ hPrev[p].result = "Done") =>
            /\ result[p] = "NothingToDo"
            /\ FileBytes(binary) = hStart[p]
            /\ \A o \in hPrev[p].offsets :
                 \E k \in 1..Len(blocks[p]) :
                     blocks[p][k].offset = o /\ is_already_patched(blocks[p][k].block)

\* C6: atomic persistence in one apply run.  Until the rename the binary
\* holds the complete image from before the run, from the rename until
\* signing the complete patched image, and after a write failure the image
\* from before the run.
C6_AtomicPersistence ==
    \A p \in Procs :
        args[p] = "apply" =>
            /\ pc[p] \in BeforeRename =>
                 Exists(binary) /\ FileBytes(binary) = hStart[p]
            /\ pc[p] = "sign" =>
                 Exists(binary) /\ FileBytes(binary) = modified[p]
                                /\ Len(modified[p]) = Len(hStart[p])
            /\ (Ended(p) /\ result[p] = "WriteFailed") =>
                 Exists(binary) /\ FileBytes(binary) = hStart[p]

\* A write failure after part of the patched image had reached the temp file.
C6_Witness ==
    \E p \in Procs :
        /\ Ended(p) /\ args[p] = "apply" /\ result[p] = "WriteFailed"
        /\ written[p] > 0 /\ modified[p] # hStart[p]
        /\ FileBytes(binary) = hStart[p]

\* C7: two concurrent apply runs.  With no I/O error at all, the binary
\* always holds a complete image: the one some run started from or the one
\* some run built.
C7_TargetAlwaysComplete ==
    (runs > 0 /\ faults = 0) =>
        /\ Exists(binary)
        /\ \E p \in Procs :
             /\ FileBytes(binary) # <<>>
             /\ FileBytes(binary) \in {hStart[p], modified[p]}

\* C8: length invariance.  Every plan that reaches the apply step has a
\* replacement and an original of the plan's length, the working buffer has
\* the length of the scanned image after every replacement, and the image
\* written to the binary has the length of the image read.
C8_LengthInvariance ==
    \A p \in Procs :
        (args[p] = "apply" /\ Passed(p, "gate6")) =>
            /\ \A k \in 1..Len(patches[p]) :
                 /\ Len(patches[p][k].new) = patches[p][k].length
                 /\ Len(patches[p][k].old) = patches[p][k].length
                 /\ Len(AppliedPrefix(p, k)) = Len(data[p])
            /\ pc[p] \notin {"backup", "backup_copy", "apply"} =>
                 Len(modified[p]) = Len(data[p])
            /\ (pc[p] \in {"sign", "verify"} \/ result[p] = "Done") =>
                 Len(FileBytes(binary)) = Len(data[p])

\* A run with two plans has renamed its image over the binary.
C8_Witness ==
    \E p \in Procs :
        /\ args[p] = "apply" /\ pc[p] = "sign" /\ Len(patches[p]) = 2
        /\ FileBytes(binary) = modified[p] /\ modified[p] # data[p]

C10_AllOrNothing ==
    \A p \in Procs :
        (\E k \in 1..Len(blocks[p]) :
            /\ ~is_already_patched(blocks[p][k].block)
            /\ ~build_replacement(blocks[p][k]).ok) =>
            /\ pc[p] \in {"gate4", "idle"}
            /\ patches[p] = <<>> /\ modified[p] = <<>>
            /\ hWrote[p] = {}
            /\ FileBytes(binary) = hStart[p]
            /\ Ended(p) => result[p] \in {"ReplacementTooLong", "ReplacementNoExactFit"}

\* A run stopped by its second block although its first could be built for.
C10_Witness ==
    \E p \in Procs :
        /\ Ended(p) /\ result[p] = "ReplacementTooLong" /\ Len(blocks[p]) = 2
        /\ build_replacement(blocks[p][1]).ok
        /\ ~build_replacement(blocks[p][2]).ok
        /\ hWrote[p] = {} /\ FileBytes(binary) = hStart[p]

\* C11: overlap rejection.  The sort by offset followed by the adjacent-pair
\* test rejects a list of plans exactly when some two of its plans intersect;
\* a rejected run has written nothing, and the plans of a run that got past
\* Gate 6 are pairwise disjoint.
C11_OverlapRejection ==
    LET Intersecting(ps) ==
            \E i, j \in 1..Len(ps) :
                /\ i # j
                /\ ps[i].offset < ps[j].offset + ps[j].length
                /\ ps[j].offset < ps[i].offset + ps[i].length
    IN
    \A p \in Procs :
        patches[p] # <<>> =>
            /\ overlapping(patches[p]) <=> Intersecting(patches[p])
            /\ (Ended(p) /\ result[p] = "OverlapDetected") =>
                 /\ Intersecting(patches[p])
                 /\ hWrote[p] = {}
                 /\ FileBytes(binary) = hStart[p]
                 /\ ~Exists(temp_path) /\ ~Exists(backup_path)
            /\ Passed(p, "gate6") => ~Intersecting(patches[p])

\* A rejected list of three plans in which only the first and the third, not
\* neighbours in the list, intersect.
C11_Witness ==
    LET Meet(a, b) == a.offset < b.offset + b.length /\ b.offset < a.offset + a.length
    IN
    \E p \in Procs :
        /\ Ended(p) /\ result[p] = "OverlapDetected" /\ Len(patches[p]) = 3
        /\ Meet(patches[p][1], patches[p][3])
        /\ ~Meet(patches[p][1], patches[p][2])
        /\ ~Meet(patches[p][2], patches[p][3])
        /\ hWrote[p] = {} /\ FileBytes(binary) = hStart[p]

\* C12, as stated: in an apply run that has overwritten the binary, a signer
\* or post-patch health-check failure is followed by the restore of the
\* backup, then the signer, then the health check, and the run does not end
\* in Done.
C12_RollbackAlwaysRestores ==
    \A p \in Procs :
        (Ended(p) /\ args[p] = "apply" /\ cause[p] # "none") =>
            LET n == Len(hLog[p])
            IN  /\ result[p] # "Done"
                /\ hLog[p][n - 2] = "restore"
                /\ hLog[p][n - 1] \in {"sign", "sign_failed"}
                /\ hLog[p][n] \in {"verify", "verify_failed"}

\* C12, amended: a signer or post-patch health-check failure happens only
\* after the overwrite and sends the run into restore_backup.  When the
\* backup exists and the copy succeeds, the signer and then the health check
\* run again and the binary ends equal to the backup; with no backup or a
\* failed copy the run ends there, no collaborator invoked again.  Done is
\* reported only after write, sign and health check all succeeded.
C12_RollbackSequence ==
    \A p \in Procs :
        args[p] = "apply" =>
            LET n    == Len(hLog[p])
                fail == IF cause[p] = "SignFailed" THEN "sign_failed" ELSE "verify_failed"
            IN  /\ (n >= 8 /\ hLog[p][8] = "sign_failed") => cause[p] = "SignFailed"
                /\ (n >= 9 /\ hLog[p][9] = "verify_failed") =>
                     cause[p] = "PostPatchHealthCheckFailed"
                /\ cause[p] # "none" =>
                     /\ binary \in hWrote[p]
                     /\ pc[p] \in {"rollback", "rb_sign", "rb_verify", "idle"}
                     /\ hLog[p][IF cause[p] = "SignFailed" THEN 8 ELSE 9] = fail
                /\ (Ended(p) /\ cause[p] # "none") =>
                     /\ result[p] \in {"RolledBack", "ManualInterventionNeeded",
                                       "RollbackNoBackup", "RollbackRestoreFailed"}
                     /\ result[p] \in {"RolledBack", "ManualInterventionNeeded"} =>
                          /\ hLog[p][n - 2] = "restore"
                          /\ hLog[p][n - 1] \in {"sign", "sign_failed"}
                          /\ hLog[p][n] \in {"verify", "verify_failed"}
                          /\ Exists(backup_path)
                          /\ FileBytes(binary) = FileBytes(backup_path)
                     /\ result[p] = "RollbackNoBackup" =>
                          ~Exists(backup_path) /\ hLog[p][n] = fail
                     /\ result[p] = "RollbackRestoreFailed" =>
                          hLog[p][n] = "restore_failed" /\ hLog[p][n - 1] = fail
                /\ (Ended(p) /\ result[p] = "Done") =>
                     /\ cause[p] = "none"
                     /\ binary \in hWrote[p]
                     /\ SubSeq(hLog[p], 8, n) = <<"sign", "verify">>
                     /\ FileBytes(binary) = modified[p]

\* A post-patch health-check failure rolled back to the backup, re-signed
\* and verified.
C12_Witness ==
    \E p \in Procs :
        /\ Ended(p) /\ args[p] = "apply" /\ result[p] = "RolledBack"
        /\ cause[p] = "PostPatchHealthCheckFailed"
        /\ SubSeq(hLog[p], 8, Len(hLog[p])) =
             <<"sign", "verify_failed", "restore", "sign", "verify">>
        /\ FileBytes(binary) = FileBytes(backup_path)
        /\ FileBytes(binary) # modified[p]

\* C13: rollback failure is surfaced.  When a rollback is triggered and a
\* part of it fails (no backup file, the restore copy, the signer after the
\* restore, or the health check after the restore), the run reports that
\* manual intervention is needed, never that the backup was restored and
\* verified.
C13_RollbackFailureSurfaced ==
    \A p \in Procs :
        (Ended(p) /\ args[p] = "apply" /\ cause[p] # "none") =>
            LET n      == Len(hLog[p])
                failed ==
                    \/ result[p] \in {"RollbackNoBackup", "RollbackRestoreFailed"}
                    \/ /\ hLog[p][n - 2] = "restore"
                       /\ hLog[p][n - 1] = "sign_failed" \/ hLog[p][n] = "verify_failed"
            IN  failed => result[p] = "ManualInterventionNeeded"

C15_PaddingSolver ==
    \A p \in Procs : \A k \in 1..Len(blocks[p]) :
        LET b == blocks[p][k]
            d == b.length - Len(Render(b, <<>>, ROW3_BASE))
            r == build_replacement(b)
            row3 == SubSeq(ROW3_BASE, 1, Len(ROW3_BASE) - 1) \o Fill(" ", d % 3)
                        \o <<"\"">>
        IN  /\ Len(PAD_UNIT) = 3
            /\ d >= 0 =>
                  /\ r.ok
                  /\ r.bytes = Render(b, Repeat(PAD_UNIT, d \div 3), row3)
                  /\ Len(r.bytes) = b.length
                  /\ pc[p] # "gate4" =>
                        /\ Passed(p, "gate4") /\ patches[p][k].new = r.bytes
                        /\ pc[p] # "gate5" => Passed(p, "gate5")
            /\ d < 0 =>
                  /\ ~r.ok /\ r.msg = "too_long"
                  /\ pc[p] # "gate4" => Ended(p) /\ result[p] = "ReplacementTooLong"
            /\ r.ok => Len(r.bytes) = b.length
            /\ r.msg # "cannot_pad"
            /\ result[p] \notin {"ReplacementNoExactFit", "SizeMismatch"}

\* A block 47 bytes longer than its template has got its plan: 15 fillers
\* and two extra spaces.
C15_Witness ==
    \E p \in Procs :
        /\ Passed(p, "gate5") /\ Len(blocks[p]) = 1 /\ Len(patches[p]) = 1
        /\ blocks[p][1].length - Len(Render(blocks[p][1], <<>>, ROW3_BASE)) = 47
        /\ Len(patches[p][1].new) = blocks[p][1].length
        /\ patches[p][1].new =
              Render(blocks[p][1], Repeat(PAD_UNIT, 15), ROW3_PLUS2)

\* C16: the concrete scenario.  For a 600-byte buffer in which the one
\* detected block is the full unit f with identifiers c, t, w and 210 bytes,
\* build_replacement succeeds with exactly 210 bytes and the run does not
\* end at Gate 4.
C16_Scenario210 ==
    \A p \in Procs :
        (/\ Len(data[p]) = 600 /\ Len(blocks[p]) = 1
         /\ blocks[p][1].kind = "full_function" /\ blocks[p][1].length = 210
         /\ blocks[p][1].func_name = Id_f /\ blocks[p][1].react_var = Id_c
         /\ blocks[p][1].flex_var = Id_t /\ blocks[p][1].text_var = Id_w)
        => /\ build_replacement(blocks[p][1]).ok
           /\ Len(build_replacement(blocks[p][1]).bytes) = 210
           /\ result[p] \notin {"ReplacementTooLong", "ReplacementNoExactFit"}

\* C17: a dry run mutates nothing.  Every step of a dry run, whatever gate
\* it stops at and whatever the blocks are, leaves the binary, the backup
\* path and the temp path as they were (existence, bytes and mode) and opens
\* no file for writing; a dry run never gets past Gate 6.
C17_DryRunNoMutation ==
    [][\A p \in Procs :
          (args[p] = "dry_run" /\ pc[p] # "idle") =>
              /\ UNCHANGED <<fsDir, fsBytes, fsMode, fd>>
              /\ hWrote'[p] = {} /\ hBackup'[p] = "none"
              /\ pc'[p] \in {"idle", "gate2", "read", "gate3", "gate4", "gate5", "gate6"}
              /\ pc[p] = "gate6" =>
                    /\ pc'[p] = "idle"
                    /\ result'[p] \in {"OverlapDetected", "DryRunComplete"}
      ]_vars

\* A dry run has validated a patch set and ended with the binary as it was.
C17_Witness ==
    \E p \in Procs :
        /\ Ended(p) /\ args[p] = "dry_run" /\ result[p] = "DryRunComplete"
        /\ patches[p] # <<>> /\ hWrote[p] = {}
        /\ FileBytes(binary) = hStart[p]
        /\ ~Exists(temp_path)

C19_NeutralExit ==
    \A p \in Procs : Ended(p) => result[p] # "UncaughtOSError"

\* C20: nothing to do.  A pipeline run ends as NothingToDo exactly when it
\* has detected at least one block and every detected block carries the
\* patched fingerprint; it has then passed Gates 1 and 2 and the read only,
\* built no plan, created no backup and written nothing.  When other blocks
\* need patching, the plans are for exactly the blocks without the
\* fingerprint.
C20_NothingToDo ==
    \A p \in Procs : args[p] \in {"apply", "dry_run"} =>
        LET all_patched ==
                /\ blocks[p] # <<>>
                /\ \A k \in 1..Len(blocks[p]) : is_already_patched(blocks[p][k].block)
        IN  /\ result[p] = "NothingToDo" <=> all_patched
            /\ all_patched =>
                  /\ Ended(p)
                  /\ hLog[p] = <<"gate1", "gate2", "read">>
                  /\ patches[p] = <<>> /\ modified[p] = <<>>
                  /\ hBackup[p] = "none" /\ hWrote[p] = {}
                  /\ FileBytes(binary) = hStart[p]
            /\ \A j \in 1..Len(patches[p]) : ~is_already_patched(patches[p][j].old)
            /\ Passed(p, "gate4") =>
                  {patches[p][j].offset : j \in 1..Len(patches[p])} =
                  {blocks[p][k].offset : k \in {i \in 1..Len(blocks[p]) :
                                                  ~is_already_patched(blocks[p][i].block)}}

\* A run has found both units patched and had nothing to do, after a run
\* that found one of the two patched and planned for the other alone.
C20_Witness ==
    \E p \in Procs :
        /\ Ended(p) /\ result[p] = "NothingToDo" /\ Len(blocks[p]) = 2
        /\ hPrev[p].args = "apply" /\ hPrev[p].result = "Done"
        /\ hPrev[p].offsets = {blocks[p][2].offset}
        /\ is_already_patched(Slice(hPrev[p].start, blocks[p][1].offset,
                                    blocks[p][1].offset + blocks[p][1].length))

\* C21: balanced extraction.  For every anchor of the scanned buffer and the
\* delimiters of its kind, with the depth after a byte being the openers
\* minus the closers from the anchor up to that byte: when some closer in
\* the window brings the depth back to 0 after an opener, _extract_block
\* returns the bytes from the anchor up to and including the first such
\* closer; over that span the depth is never negative and is 0 only before
\* the first opener and at the end.  The blocks Gate 3 reports are such spans.
C21_BalancedExtraction ==
    \A p \in Procs :
        /\ \A s \in FullFuncStarts(data[p]) \cup ReturnStarts(data[p]) :
             \A kind \in {k \in {"function", "return"} :
                             \/ k = "function" /\ s \in FullFuncStarts(data[p])
                             \/ k = "return" /\ s \in ReturnStarts(data[p])} :
               LET r        == extract_block(data[p], s, kind)
                   open_c   == IF kind = "function" THEN "{" ELSE "("
                   close_c  == IF kind = "function" THEN "}" ELSE ")"
                   win      == Min(chunk_size, Len(data[p]) - s)
                   at(k)    == data[p][s + k]
                   depth(k) == Cardinality({j \in 1..k : at(j) = open_c})
                                 - Cardinality({j \in 1..k : at(j) = close_c})
                   marks    == {k \in 1..win : at(k) \in {open_c, close_c}}
                   closed   == {k \in marks : at(k) = close_c /\ depth(k) = 0
                                               /\ \E j \in 1..k : at(j) = open_c}
               IN  /\ r.ok <=> closed # {}
                   /\ r.ok =>
                         /\ r.length = MinOf(closed)
                         /\ r.block = SubSeq(data[p], s + 1, s + r.length)
                         /\ \A k \in {m \in marks : m < r.length} :
                               /\ depth(k) > 0
                               /\ at(MinOf(marks)) = open_c
        /\ \A j \in 1..Len(blocks[p]) :
             LET b == blocks[p][j]
                 r == extract_block(data[p], b.offset,
                                    IF b.kind = "full_function" THEN "function"
                                    ELSE "return")
             IN  r.ok /\ b.block = r.block /\ b.length = r.length

\* Gate 3 has reported a block whose span holds nested pairs and ends before
\* the end of the buffer.
C21_Witness ==
    \E p \in Procs : \E j \in 1..Len(blocks[p]) :
        /\ Passed(p, "gate3")
        /\ blocks[p][j].offset > 0
        /\ blocks[p][j].offset + blocks[p][j].length < Len(data[p])
        /\ blocks[p][j].kind = "full_function"
        /\ \E i \in 1..(blocks[p][j].length - 1) : blocks[p][j].block[i] = "}"

\* C23: the bounded scan window.  At every anchor _extract_block gives what
\* it gives on the chunk_size bytes from the anchor alone; it fails exactly
\* when no closer among them brings the depth back to 0 after an opener; a
\* returned span has between 2 and chunk_size bytes and lies inside the
\* buffer.  An anchor whose extraction fails yields no block, and the other
\* anchors are still classified: Gate 3 reports a full unit at exactly the
\* full-unit anchors that have the marker, a glyph, a span and a leaf-text
\* match.
C23_BoundedWindow ==
    \A p \in Procs :
        /\ \A s \in FullFuncStarts(data[p]) \cup ReturnStarts(data[p]) :
             \A kind \in {k \in {"function", "return"} :
                             \/ k = "function" /\ s \in FullFuncStarts(data[p])
                             \/ k = "return" /\ s \in ReturnStarts(data[p])} :
               LET r       == extract_block(data[p], s, kind)
                   window  == SubSeq(data[p], s + 1, Min(s + chunk_size, Len(data[p])))
                   open_c  == IF kind = "function" THEN "{" ELSE "("
                   close_c == IF kind = "function" THEN "}" ELSE ")"
                   balanced(k) ==
                       /\ window[k] = close_c
                       /\ \E j \in 1..k : window[j] = open_c
                       /\ Cardinality({j \in 1..k : window[j] = open_c})
                            = Cardinality({j \in 1..k : window[j] = close_c})
               IN  /\ r = extract_block(window, 0, kind)
                   /\ ~r.ok <=> ~\E k \in {j \in 1..Len(window) : window[j] = close_c} :
                                     balanced(k)
                   /\ ~r.ok => r.block = <<>> /\ r.length = 0
                   /\ r.ok =>
                         /\ 2 <= r.length /\ r.length <= chunk_size
                         /\ s + r.length <= Len(data[p])
                         /\ Len(r.block) = r.length
        /\ pc[p] # "gate3" =>
             /\ \A s \in FullFuncStarts(data[p]) :
                   ~extract_block(data[p], s, "function").ok =>
                       ~\E j \in 1..Len(blocks[p]) :
                           blocks[p][j].kind = "full_function" /\ blocks[p][j].offset = s
             /\ {blocks[p][j].offset : j \in {i \in 1..Len(blocks[p]) :
                                                 blocks[p][i].kind = "full_function"}}
                  = {s \in FullFuncStarts(data[p]) :
                        /\ has_owner_marker(data[p], s) /\ has_mascot_char(data[p], s)
                        /\ extract_block(data[p], s, "function").ok
                        /\ text_match(extract_block(data[p], s, "function").block).ok}

\* Gate 3 has dropped a full-unit anchor whose unit is one byte longer than
\* the window and has reported the full unit after it.
C23_Witness ==
    \E p \in Procs :
        /\ Passed(p, "gate3")
        /\ Len(data[p]) > chunk_size
        /\ 0 \in FullFuncStarts(data[p])
        /\ ~extract_block(data[p], 0, "function").ok
        /\ data[p][chunk_size + 1] = "}"
        /\ \E j \in 1..Len(blocks[p]) :
              blocks[p][j].kind = "full_function" /\ blocks[p][j].offset > chunk_size

\* C22: the credential-cache script only analyses.  For every command line
\* its dry_run flag is true (the Mode line never says apply), and no step of
\* its runs creates, removes, renames or changes a file or opens one for
\* writing: it reads the binary and reports.
C22_AnalysisOnly ==
    /\ [](\A p \in Procs : args[p] \in CacheModes =>
            /\ cache_dry_run(args[p])
            /\ \A i \in 1..Len(hLog[p]) : hLog[p][i] # "mode_apply"
            /\ Passed(p, "read") => hLog[p] = <<"mode_dry_run", "read">>
            /\ data[p] # <<>> => data[p] = FileBytes(binary)
            /\ hWrote[p] = {} /\ fd[p] = NoFile
            /\ blocks[p] = <<>> /\ patches[p] = <<>> /\ modified[p] = <<>>)
    /\ [][\A p \in Procs : args'[p] \in CacheModes =>
            UNCHANGED <<fsDir, fsBytes, fsMode, fd>>]_vars

\* A run without any flag has read a binary that holds both patterns and
\* reported it ready for manual validation, in dry-run mode.
C22_Witness ==
    \E p \in Procs :
        /\ Ended(p) /\ args[p] = "cache" /\ result[p] = "CacheReady"
        /\ hLog[p] = <<"mode_dry_run", "read">>
        /\ data[p] = FileBytes(binary) /\ data[p] = hStart[p]

\* C24: nested-match suppression.  No reported return block lies inside a
\* reported full unit, and the blocks find_mascot_blocks reports have
\* pairwise disjoint ranges.
C24_DisjointBlocks ==
    \A p \in Procs : \A i, j \in 1..Len(blocks[p]) :
        i # j =>
            \/ blocks[p][i].offset + blocks[p][i].length <= blocks[p][j].offset
            \/ blocks[p][j].offset + blocks[p][j].length <= blocks[p][i].offset

\* C25: leaf-text identifier priority.  With a form occurring in a span
\* where createElement( is followed by an identifier and the form's text:
\* every reported block, full unit or return block, has as its leaf-text
\* identifier the identifier of the first occurrence of the clawd_body form
\* if that form occurs in its span, else of the first occurrence of the
\* penguinShimmer form, else of the first occurrence of the null form; and
\* an anchor with the owner marker, a glyph and a balanced span (a return
\* anchor: not starting in a block found before) is left out exactly when
\* none of the three forms occurs in its span.
C25_LeafTextPriority ==
    \A p \in Procs :
        LET Occ(span, F) ==
                {i \in 0..(Len(span) - 1) :
                    /\ LitAt(span, i, LIT_CREATE_BARE)
                    /\ \E e \in (i + Len(LIT_CREATE_BARE) + 1)..Len(span) :
                          /\ \A j \in (i + Len(LIT_CREATE_BARE) + 1)..e :
                                span[j] \in IdentChars
                          /\ LitAt(span, e, F)}
            Ident(span, F) ==
                LET a == MinOf(Occ(span, F)) + Len(LIT_CREATE_BARE)
                    e == CHOOSE x \in (a + 1)..Len(span) : LitAt(span, x, F)
                                /\ \A j \in (a + 1)..x : span[j] \in IdentChars
                IN  SubSeq(span, a + 1, e)
            Expected(span) ==
                IF Occ(span, LIT_COLOR_CLAWD) # {} THEN Ident(span, LIT_COLOR_CLAWD)
                ELSE IF Occ(span, LIT_COLOR_SHIMMER) # {}
                THEN Ident(span, LIT_COLOR_SHIMMER)
                ELSE Ident(span, LIT_NULL)
            NoForm(span) ==
                Occ(span, LIT_COLOR_CLAWD) \cup Occ(span, LIT_COLOR_SHIMMER)
                    \cup Occ(span, LIT_NULL) = {}
            Reported(kind, s) ==
                \E j \in 1..Len(blocks[p]) :
                    blocks[p][j].kind = kind /\ blocks[p][j].offset = s
        IN  /\ \A j \in 1..Len(blocks[p]) :
                  /\ ~NoForm(blocks[p][j].block)
                  /\ blocks[p][j].text_var = Expected(blocks[p][j].block)
            /\ pc[p] # "gate3" =>
                  /\ \A s \in FullFuncStarts(data[p]) :
                        (/\ has_owner_marker(data[p], s) /\ has_mascot_char(data[p], s)
                         /\ extract_block(data[p], s, "function").ok)
                        => (~Reported("full_function", s)
                              <=> NoForm(extract_block(data[p], s, "function").block))
                  /\ \A s \in ReturnStarts(data[p]) :
                        (/\ has_owner_marker(data[p], s) /\ has_mascot_char(data[p], s)
                         /\ extract_block(data[p], s, "return").ok
                         /\ ~\E j \in 1..Len(blocks[p]) :
                                /\ blocks[p][j].offset < s
                                /\ s < blocks[p][j].offset + blocks[p][j].length)
                        => (~Reported("return_block", s)
                              <=> NoForm(extract_block(data[p], s, "return").block))

\* A return block whose rows are in the null, the penguinShimmer and the
\* clawd_body form, in that order, was reported with the identifier of the
\* third row.
C25_Witness ==
    \E p \in Procs : \E j \in 1..Len(blocks[p]) :
        /\ Passed(p, "gate3")
        /\ blocks[p][j].kind = "return_block"
        /\ blocks[p][j].text_var = Id_P
        /\ TextForm(blocks[p][j].block, LIT_NULL).ok
        /\ TextForm(blocks[p][j].block, LIT_NULL).text_var = Id_w
        /\ TextForm(blocks[p][j].block, LIT_COLOR_SHIMMER).ok
        /\ TextForm(blocks[p][j].block, LIT_COLOR_SHIMMER).text_var = Id_L

\* C26: concurrent backup creation.  When two apply invocations interleave,
\* and no I/O error occurs, the backup file never holds bytes a patch has
\* written: it holds the unpatched image, without the fingerprint of the
\* replacement.
C26_ConcurrentBackup ==
    (faults = 0 /\ Exists(backup_path)) =>
        ~Contains(FileBytes(backup_path), PATCHED_FINGERPRINT)

\* C27: frame of apply.  Once an apply run has renamed its temp file over
\* the binary, the image on disk has the length of the scanned image; every
\* byte at an offset outside all the plans' ranges equals the scanned byte;
\* the bytes of every detected block that carried the fingerprint are as
\* they were scanned; and the bytes at each plan's range are its new_bytes.
C27_ApplyFrame ==
    \A p \in Procs :
        (args[p] = "apply" /\ pc[p] \in {"sign", "verify"}) =>
            LET img == FileBytes(binary)
                covered(i) == \E j \in 1..Len(patches[p]) :
                                 /\ patches[p][j].offset <= i
                                 /\ i < patches[p][j].offset + patches[p][j].length
            IN  /\ Len(img) = Len(data[p])
                /\ \A i \in 0..(Len(img) - 1) : ~covered(i) => img[i + 1] = data[p][i + 1]
                /\ \A k \in 1..Len(blocks[p]) :
                      is_already_patched(blocks[p][k].block) =>
                          Slice(img, blocks[p][k].offset,
                                blocks[p][k].offset + blocks[p][k].length)
                              = blocks[p][k].block
                /\ \A j \in 1..Len(patches[p]) :
                      Slice(img, patches[p][j].offset,
                            patches[p][j].offset + patches[p][j].length)
                          = patches[p][j].new

\* C28: order independence of application.  The detected blocks list every
\* full unit before every return fragment, whatever their offsets; the plans
\* are the blocks without the fingerprint, in that order, and Gate 6 leaves
\* the list as it is.  For a list of plans that passed Gates 5 and 6, the
\* apply loop succeeds on every permutation of the list and gives the same
\* buffer, which is the working copy the run has built.
C28_OrderIndependence ==
    \A p \in Procs :
        args[p] \in {"apply", "dry_run"} =>
            LET n       == Len(patches[p])
                Perms   == {f \in [1..n -> 1..n] : \A a, b \in 1..n : a # b => f[a] # f[b]}
                In(f)   == AsTuple([k \in 1..n |-> patches[p][f[k]]], n)
                todo    == SelectSeq(blocks[p], LAMBDA b : ~is_already_patched(b.block))
            IN  /\ \A i, j \in 1..Len(blocks[p]) :
                      (blocks[p][i].kind = "return_block"
                          /\ blocks[p][j].kind = "full_function") => j < i
                /\ Passed(p, "gate4") =>
                      /\ n = Len(todo)
                      /\ \A k \in 1..n : /\ patches[p][k].offset = todo[k].offset
                                          /\ patches[p][k].old = todo[k].block
                /\ Passed(p, "gate6") =>
                      \A f \in Perms :
                          /\ ApplyLoop(data[p], In(f), 1).ok
                          /\ ApplyLoop(data[p], In(f), 1).modified
                                = ApplyLoop(data[p], patches[p], 1).modified
                /\ pc[p] \in {"size_check", "open_tmp", "write_tmp", "copymode", "rename",
                              "sign", "verify"} =>
                      \A f \in Perms : modified[p] = ApplyLoop(data[p], In(f), 1).modified

\* An apply run has written the image built from three plans listed as two
\* full units and then the return fragment that lies before both.
C28_Witness ==
    \E p \in Procs :
        /\ args[p] = "apply" /\ pc[p] = "sign" /\ Len(patches[p]) = 3
        /\ blocks[p][1].kind = "full_function" /\ blocks[p][2].kind = "full_function"
        /\ blocks[p][3].kind = "return_block"
        /\ patches[p][3].offset < patches[p][1].offset
        /\ patches[p][1].offset < patches[p][2].offset
        /\ FileBytes(binary) = modified[p]
        /\ FileBytes(binary) # data[p]

\* C29: the apply-time aborts are unreachable.  For a list of plans that
\* passed Gates 5 and 6, the re-check before each replacement finds the
\* plan's old bytes and the buffer keeps the length of the scanned image: no
\* run of a single invocation ends with "Unexpected content" or "Binary size
\* changed".
C29_AbortsUnreachable ==
    \A p \in Procs :
        /\ result[p] \notin {"RaceConditionDetected", "SizeInvariantViolated"}
        /\ (args[p] = "apply" /\ Passed(p, "gate6")) =>
              /\ ApplyLoop(data[p], patches[p], 1).ok
              /\ Len(ApplyLoop(data[p], patches[p], 1).modified) = Len(data[p])
        /\ pc[p] \in {"open_tmp", "write_tmp", "copymode", "rename"} =>
              /\ Len(modified[p]) = Len(data[p])
              /\ \A j \in 1..Len(patches[p]) :
                    Slice(modified[p], patches[p][j].offset,
                          patches[p][j].offset + patches[p][j].length) = patches[p][j].new

\* A run has got past the re-check and the size check with three plans that
\* are not listed in offset order.
C29_Witness ==
    \E p \in Procs :
        /\ args[p] = "apply" /\ pc[p] = "open_tmp" /\ Len(patches[p]) = 3
        /\ patches[p][2].offset < patches[p][1].offset
        /\ modified[p] # data[p]
====
